---- MODULE Spec2Model ----
(***************************************************************************)
(* Model of the Windows-AI installer core: plugin discovery and the        *)
(* per-plugin dependency registry (installer/plugins.py), the requirement  *)
(* resolver and setup_all (installer/env_setup.py), the environment        *)
(* provisioner (installer/env.py), the install paths of the CLI and the    *)
(* GUI (installer/cli.py, installer/gui.py) and the API key store          *)
(* (installer/api_keys.py).                                                *)
(***************************************************************************)
EXTENDS Integers, Sequences, FiniteSets, TLC

VARIABLES
    \* ---- plugin discovery (installer/plugins.py) ----
    eps,          \* entry points of group "installer_plugins", in iteration order
    files,        \* the *.py files of search_path, in glob order
    phase,        \* which loop of discover_plugins is running: "eps" or "files"
    idx,          \* index of the unit the running loop is at
    dpc,          \* position inside discover_plugins / _apply_plugin
    deps,         \* registry.dependencies: key -> set of requirement strings
    cur,          \* registry._current_plugin
    exc,          \* exception in flight inside _apply_plugin
    ncalls,       \* add_dependency calls made by the running plugin body
    declared,     \* history: unit id -> set of requirements it passed to add_dependency
    processed,    \* history: ids of the units whose _apply_plugin returned normally
    outcome,      \* what discover_plugins handed to its caller
    \* ---- requirement resolver (installer/env_setup.py) ----
    rq,           \* the requirement strings passed to resolve_conflicts
    auto,         \* the auto_resolve flag
    rpc,          \* "init", "called" (first call returned), "done" (second call returned)
    rres,         \* (resolved, conflicts) returned by the first call
    rq2,          \* the same multiset of strings in the order of the second call
    rres2,        \* (resolved, conflicts) returned by the second call
    \* ---- environment provisioner (installer/env.py) ----
    envVar,       \* value of WINDOWS_AI_USE_CONDA in the process environment, or None
    condaOnPath,  \* whether shutil.which("conda") finds an executable
    envDirs,      \* name -> state of BASE_DIR / name: "absent", "partial", "complete"
    record,       \* ENV_RECORD_FILE: whether it exists and the JSON document it holds
    loaded,       \* history: what the last load_recorded_envs call read and returned
    epc,          \* position inside create_env
    call,         \* the running create_env call: its arguments and locals
    lastCall,     \* history: the create_env call that ended last
    prevCall,     \* history: the create_env call that ended before lastCall
    \* ---- package installation (installer/env.py, install_packages) ----
    osName,       \* os.name: "nt" or "posix"
    ipc,          \* position inside install_packages
    icall,        \* the running install_packages call: env_path and list(packages)
    invocations,  \* the subprocess invocations made by the running or last call
    ilast,        \* history: how the last install_packages call ended
    \* ---- install paths (env_setup.setup_all, cli.install_all, gui._run_install) ----
    registry,     \* registry.dependencies as discovery yields it: plugin -> set of strings
    autoResolve,  \* the auto_resolve argument of setup_all
    entry,        \* the install path that is running or ran last
    spc,          \* position inside the running install path
    todo,         \* the plugins the loop has still to take, in order
    locals,       \* the loop body's locals: name, packages, conflicts, env_path
    report,       \* setup_all's report dictionary
    log,          \* history: the steps of the running install path, in order
    runs,         \* number of install path runs that have ended
    lastRun,      \* history: the run that ended last
    prevRun,      \* history: the run that ended before lastRun
    \* ---- API key store (installer/api_keys.py) ----
    avail,        \* which of win32cred (on Windows), keyring and Fernet were imported
    credStore,    \* Windows Credential Manager: target name -> credential blob
    ring,         \* the keyring: (service, username) -> password
    keyFile,      \* FERNET_KEY_FILE: absent or the key it holds
    encFile,      \* ENC_FILE: absent or the token it holds
    kres,         \* history: the last save_key, load_key or delete_key call and its result
    saved,        \* history: service -> the key last saved and not deleted since
    \* ---- backend selection (installer/model_selector.py) ----
    taskSpecs,        \* the specs dictionary passed to select_backend
    info,         \* the dictionary system_info.detect_system() returns
    choice,       \* "init" before the call, then the string select_backend returned
    \* ---- the registry beyond discovery (installer/plugins.py) ----
    ui,           \* registry.ui_components: name -> component
    uiCalls,      \* register_ui_component calls made so far
    hostCalls,    \* add_dependency calls made outside any plugin body
    \* ---- two processes in create_env (installer/env.py) ----
    procs,        \* process -> its position in create_env, its name and the data it read
    ended,        \* number of the two calls that have ended
    \* ---- installer window and its install worker (installer/gui.py) ----
    window,       \* "open" until root.destroy(), then "destroyed"
    boxes,        \* component_vars: plugin -> whether its box is ticked
    button,       \* state of install_btn: "normal" or "disabled"
    progress,     \* the progress bar: its value and its maximum
    workers,      \* the install worker threads started so far, in order
    afterQueue,   \* callbacks scheduled with root.after(0, ...) and not yet run
    delivered,    \* history: the callbacks the interface thread has run, in order
    dialog        \* history: the dialog shown last

pluginVars == <<eps, files, phase, idx, dpc, deps, cur, exc, ncalls, declared,
                processed, outcome>>

resolveVars == <<rq, auto, rpc, rres, rq2, rres2>>

envVars == <<envVar, condaOnPath, envDirs, record, loaded, epc, call, lastCall, prevCall>>

installVars == <<osName, ipc, icall, invocations, ilast>>

setupVars == <<registry, autoResolve, entry, spc, todo, locals, report, log, runs,
               lastRun, prevRun>>

keyVars == <<avail, credStore, ring, keyFile, encFile, kres, saved>>

selectVars == <<taskSpecs, info, choice>>

registryVars == <<ui, uiCalls, hostCalls>>

raceVars == <<procs, ended>>

guiVars == <<window, boxes, button, progress, workers, afterQueue, delivered, dialog>>

vars == <<pluginVars, resolveVars, envVars, installVars, setupVars, keyVars, selectVars, registryVars, raceVars, guiVars>>

None == "None"

(***************************************************************************)
(* Plugin discovery                                                        *)
(***************************************************************************)

\* Bounds of the discovery model.
MaxEps == 1
MaxFiles == 2
MaxCalls == 2

\* Names are sequences of characters, so that startswith("_") is computed.
EpNames == {<<"a">>, <<"e">>}
FileStems == {<<"a">>, <<"b">>, <<"_", "h">>}
PluginReqs == {"p", "q"}

\* What ep.load() / _load_module(file) yields:
\*   "register" : an object (module) exposing a callable register
\*   "callable" : a bare callable (entry points only; a module is never callable)
\*   "neither"  : neither shape
\*   "loadfail" : loading raises
EpKinds == {"register", "callable", "neither", "loadfail"}
FileKinds == {"register", "neither", "loadfail"}

EpUnits == [name : EpNames, kind : EpKinds]
FileUnits == [name : FileStems, kind : FileKinds]

SeqsUpTo(S, n) == UNION {[1..k -> S] : k \in 0..n}

\* A directory holds each file name once.
Injective(s) == \A i, j \in 1..Len(s) : i # j => s[i].name # s[j].name

GLOBAL == <<"g", "l", "o", "b", "a", "l">>

EmptyMap == [k \in {} |-> {}]

\* A faulty registry that adds the requirement to every set it holds.
AddToEverySet(d, key, requirement) ==
    [k \in DOMAIN d \cup {key} |->
        (IF k \in DOMAIN d THEN d[k] ELSE {}) \cup {requirement}]

\* dict.setdefault(key, set()).add(requirement)
SetDefaultAdd(d, key, requirement) ==
    [k \in DOMAIN d \cup {key} |->
        IF k = key
        THEN (IF key \in DOMAIN d THEN d[key] ELSE {}) \cup {requirement}
        ELSE d[k]]

\* A faulty registry that ignores the active plugin.
DependencyKeyAlwaysGlobal(current) == GLOBAL

\* PluginRegistry.add_dependency: the key is `self._current_plugin or "global"`.
DependencyKey(current) == IF current = None \/ current = <<>> THEN GLOBAL ELSE current

add_dependency(d, current, requirement) ==
    SetDefaultAdd(d, DependencyKey(current), requirement)

Units == IF phase = "eps" THEN eps ELSE files
UnitId == <<phase, idx>>

EnvNames == {"a", "b"}

\* os.getenv gives None for a variable that is not set
Unset == [set |-> FALSE]
\* ENV_RECORD_FILE does not exist
NoRecord == [exists |-> FALSE]
NoCall == [status |-> "none"]

\* No create_env call is made.
EnvIdle ==
    /\ envVar = Unset /\ condaOnPath = FALSE
    /\ envDirs = [n \in EnvNames |-> "absent"]
    /\ record = NoRecord
    /\ epc = "off" /\ call = NoCall /\ lastCall = NoCall /\ prevCall = NoCall
    /\ loaded = NoCall

\* No install_packages call is made.
InstallIdle ==
    /\ osName = "posix" /\ ipc = "off" /\ icall = NoCall /\ invocations = <<>>
    /\ ilast = NoCall

\* No install path is run.
SetupIdle ==
    /\ registry = EmptyMap /\ autoResolve = TRUE /\ entry = None /\ spc = "off"
    /\ todo = <<>> /\ locals = NoCall /\ report = EmptyMap /\ log = <<>> /\ runs = 0
    /\ lastRun = NoCall /\ prevRun = NoCall

\* a file that does not exist
NoFile == [exists |-> FALSE]
Services == {"s", "t"}
\* no key is stored for the service
NoKey == [present |-> FALSE]

\* No API key operation is made.
KeysIdle ==
    /\ avail = [win32cred |-> FALSE, keyring |-> FALSE, fernet |-> FALSE]
    /\ credStore = EmptyMap /\ ring = EmptyMap
    /\ keyFile = NoFile /\ encFile = NoFile
    /\ kres = [op |-> "off"]
    /\ saved = [s \in Services |-> NoKey]

\* A new PluginRegistry: no UI component, no call made on it yet.
RegistryIdle ==
    /\ ui = EmptyMap /\ uiCalls = 0 /\ hostCalls = 0

Procs == {1, 2}

\* No second process: create_env runs in one process at most.
RaceIdle ==
    /\ procs = [p \in Procs |-> [pc |-> "off"]] /\ ended = 0

\* No installer window is built.
GuiIdle ==
    /\ window = "off" /\ boxes = EmptyMap /\ button = "normal"
    /\ progress = [value |-> 0, maximum |-> 100]
    /\ workers = <<>> /\ afterQueue = <<>> /\ delivered = <<>> /\ dialog = None

\* select_backend is not called.
SelectIdle ==
    /\ taskSpecs = EmptyMap /\ info = EmptyMap /\ choice = "off"

\* The resolver is not running.
ResolveIdle ==
    /\ rq = <<>> /\ auto = TRUE /\ rpc = "idle"
    /\ rres = None /\ rq2 = <<>> /\ rres2 = None

InitPlugins ==
    /\ ResolveIdle
    /\ EnvIdle
    /\ InstallIdle
    /\ SetupIdle
    /\ KeysIdle
    /\ SelectIdle
    /\ RegistryIdle
    /\ RaceIdle
    /\ GuiIdle
    /\ eps \in {s \in SeqsUpTo(EpUnits, MaxEps) : Injective(s)}
    /\ files \in {s \in SeqsUpTo(FileUnits, MaxFiles) : Injective(s)}
    /\ phase = "eps"
    /\ idx = 1
    /\ dpc = "loop"
    /\ deps = EmptyMap
    /\ cur = None
    /\ exc = None
    /\ ncalls = 0
    /\ declared = EmptyMap
    /\ processed = {}
    /\ outcome = [status |-> "running"]

\* for ep in entry_points().select(...): exhausted, go on to the directory
EpsExhausted ==
    /\ UNCHANGED <<resolveVars, envVars, installVars, setupVars, keyVars, selectVars, registryVars, raceVars, guiVars>>
    /\ dpc = "loop" /\ phase = "eps" /\ idx > Len(eps)
    /\ phase' = "files" /\ idx' = 1
    /\ UNCHANGED <<eps, files, dpc, deps, cur, exc, ncalls, declared, processed, outcome>>

\* if file.name.startswith("_"): continue
StartsWithUnderscore(name) == Len(name) > 0 /\ name[1] = "_"

SkipFile ==
    /\ UNCHANGED <<resolveVars, envVars, installVars, setupVars, keyVars, selectVars, registryVars, raceVars, guiVars>>
    /\ dpc = "loop" /\ phase = "files" /\ idx <= Len(files)
    /\ StartsWithUnderscore(files[idx].name)
    /\ idx' = idx + 1
    /\ UNCHANGED <<eps, files, phase, dpc, deps, cur, exc, ncalls, declared, processed, outcome>>

Skipped(unit) == phase = "files" /\ StartsWithUnderscore(unit.name)

\* plugin = ep.load() / module = _load_module(file) raises: nothing catches it
LoadFails ==
    /\ UNCHANGED <<resolveVars, envVars, installVars, setupVars, keyVars, selectVars, registryVars, raceVars, guiVars>>
    /\ dpc = "loop" /\ idx <= Len(Units)
    /\ ~Skipped(Units[idx])
    /\ Units[idx].kind = "loadfail"
    /\ dpc' = "raised"
    /\ outcome' = [status |-> "raised",
                   error |-> IF phase = "eps" THEN "LoadError" ELSE "ImportError",
                   unit |-> UnitId]
    /\ UNCHANGED <<eps, files, phase, idx, deps, cur, exc, ncalls, declared, processed>>

\* _apply_plugin, line 40: registry._current_plugin = name
ApplyEnter ==
    /\ UNCHANGED <<resolveVars, envVars, installVars, setupVars, keyVars, selectVars, registryVars, raceVars, guiVars>>
    /\ dpc = "loop" /\ idx <= Len(Units)
    /\ ~Skipped(Units[idx])
    /\ Units[idx].kind # "loadfail"
    /\ cur' = Units[idx].name
    /\ ncalls' = 0
    /\ dpc' = "try"
    /\ UNCHANGED <<eps, files, phase, idx, deps, exc, declared, processed, outcome>>

HasRegister(unit) == unit.kind = "register"
IsCallable(unit) == unit.kind = "callable"

\* the body of plugin.register(registry) / plugin(registry) calls add_dependency
PluginAddsDependency ==
    /\ UNCHANGED <<resolveVars, envVars, installVars, setupVars, keyVars, selectVars, registryVars, raceVars, guiVars>>
    /\ dpc = "try"
    /\ HasRegister(Units[idx]) \/ IsCallable(Units[idx])
    /\ ncalls < MaxCalls
    /\ \E r \in PluginReqs :
        /\ deps' = add_dependency(deps, cur, r)
        /\ declared' = SetDefaultAdd(declared, UnitId, r)
    /\ ncalls' = ncalls + 1
    /\ UNCHANGED <<eps, files, phase, idx, dpc, cur, exc, processed, outcome>>

\* the plugin body returns
PluginReturns ==
    /\ UNCHANGED <<resolveVars, envVars, installVars, setupVars, keyVars, selectVars, registryVars, raceVars, guiVars>>
    /\ dpc = "try"
    /\ HasRegister(Units[idx]) \/ IsCallable(Units[idx])
    /\ dpc' = "finally"
    /\ UNCHANGED <<eps, files, phase, idx, deps, cur, exc, ncalls, declared, processed, outcome>>

\* the plugin body raises
PluginRaises ==
    /\ UNCHANGED <<resolveVars, envVars, installVars, setupVars, keyVars, selectVars, registryVars, raceVars, guiVars>>
    /\ dpc = "try"
    /\ HasRegister(Units[idx]) \/ IsCallable(Units[idx])
    /\ exc' = "PluginError"
    /\ dpc' = "finally"
    /\ UNCHANGED <<eps, files, phase, idx, deps, cur, ncalls, declared, processed, outcome>>

\* else: raise TypeError("Plugin must be callable or expose a register() function")
ContractViolation ==
    /\ UNCHANGED <<resolveVars, envVars, installVars, setupVars, keyVars, selectVars, registryVars, raceVars, guiVars>>
    /\ dpc = "try"
    /\ ~HasRegister(Units[idx]) /\ ~IsCallable(Units[idx])
    /\ exc' = "TypeError"
    /\ dpc' = "finally"
    /\ UNCHANGED <<eps, files, phase, idx, deps, cur, ncalls, declared, processed, outcome>>

\* A faulty cleanup that resets the marker only when the body returned normally.
ResetOnSuccessOnly(marker, error) == IF error = None THEN None ELSE marker

\* finally: registry._current_plugin = None
MarkerAfterFinally(marker, error) == None

\* no try/except in discover_plugins: an exception leaves the function
AfterApply(error) == IF error = None THEN "loop" ELSE "raised"

ApplyFinally ==
    /\ UNCHANGED <<resolveVars, envVars, installVars, setupVars, keyVars, selectVars, registryVars, raceVars, guiVars>>
    /\ dpc = "finally"
    /\ cur' = MarkerAfterFinally(cur, exc)
    /\ dpc' = AfterApply(exc)
    /\ exc' = None
    /\ IF exc = None
       THEN /\ processed' = processed \cup {UnitId}
            /\ idx' = idx + 1
            /\ UNCHANGED outcome
       ELSE /\ IF AfterApply(exc) = "raised"
               THEN /\ outcome' = [status |-> "raised", error |-> exc, unit |-> UnitId]
                    /\ UNCHANGED idx
               ELSE /\ idx' = idx + 1
                    /\ UNCHANGED outcome
            /\ UNCHANGED processed
    /\ UNCHANGED <<eps, files, phase, deps, ncalls, declared>>

\* return registry
DiscoverReturns ==
    /\ UNCHANGED <<resolveVars, envVars, installVars, setupVars, keyVars, selectVars, registryVars, raceVars, guiVars>>
    /\ dpc = "loop" /\ phase = "files" /\ idx > Len(files)
    /\ dpc' = "returned"
    /\ outcome' = [status |-> "returned", registry |-> deps]
    /\ UNCHANGED <<eps, files, phase, idx, deps, cur, exc, ncalls, declared, processed>>

NextPlugins ==
    \/ EpsExhausted
    \/ SkipFile
    \/ LoadFails
    \/ ApplyEnter
    \/ PluginAddsDependency
    \/ PluginReturns
    \/ PluginRaises
    \/ ContractViolation
    \/ ApplyFinally
    \/ DiscoverReturns

SpecPlugins == InitPlugins /\ [][NextPlugins]_vars

(***************************************************************************)
(* Properties of plugin discovery                                          *)
(***************************************************************************)

UnitIds == {<<"eps", i>> : i \in 1..Len(eps)} \cup {<<"files", i>> : i \in 1..Len(files)}
UnitOf(id) == IF id[1] = "eps" THEN eps[id[2]] ELSE files[id[2]]
IsSkipped(id) == id[1] = "files" /\ StartsWithUnderscore(UnitOf(id).name)
\* the units that satisfy the plugin contract and are not ignored
ValidUnitIds == {id \in UnitIds : ~IsSkipped(id) /\ UnitOf(id).kind \in {"register", "callable"}}
DeclaredBy(id) == IF id \in DOMAIN declared THEN declared[id] ELSE {}
Finished == dpc \in {"returned", "raised"}

\* the directory scripts that discovery loads, and those that declared something
Scripts == {i \in 1..Len(files) : ~StartsWithUnderscore(files[i].name)}
DeclaringScripts == {i \in Scripts : <<"files", i>> \in DOMAIN declared}

\* C1: after discover_plugins over a directory of plugin scripts (no entry
\* points installed) whose register functions call add_dependency, the
\* returned registry.dependencies has exactly one key per declaring script,
\* the file stem, and each key maps to exactly the set of requirement strings
\* that script declared.
C1_DirectoryAttribution ==
    (outcome.status = "returned" /\ eps = <<>>) =>
        /\ DOMAIN outcome.registry = {files[i].name : i \in DeclaringScripts}
        /\ Cardinality(DOMAIN outcome.registry) = Cardinality(DeclaringScripts)
        /\ \A i \in DeclaringScripts :
              outcome.registry[files[i].name] = declared[<<"files", i>>]

\* two scripts, each declaring its own requirement, discovered to the end
C1_Witness ==
    /\ outcome.status = "returned" /\ eps = <<>>
    /\ Len(files) = 2
    /\ DeclaringScripts = {1, 2}
    /\ declared[<<"files", 1>>] = {"p"}
    /\ declared[<<"files", 2>>] = {"q"}

\* C2: registry._current_plugin is None whenever no plugin invocation is in
\* progress, that is everywhere outside the try block of _apply_plugin, after
\* successful and after failing invocations alike.
C2_MarkerNoneOutsideInvocation ==
    dpc \in {"loop", "returned", "raised"} => cur = None

\* a successful invocation followed by one that raised TypeError (the unit is
\* neither callable nor exposes register), the marker being None afterwards
C2_Witness ==
    /\ dpc = "raised" /\ outcome.error = "TypeError"
    /\ processed # {}
    /\ cur = None

\* C3: when discovery meets a unit that neither exposes a callable register
\* nor is callable, the failure is confined to that unit: once discovery has
\* ended, every valid unit has been fully processed and its declared
\* dependencies are in the registry.
C3_ContractFailureIsolated ==
    (/\ Finished
     /\ (\E u \in UnitIds : ~IsSkipped(u) /\ UnitOf(u).kind = "neither")
     /\ (\A u \in UnitIds : UnitOf(u).kind # "loadfail"))
        => (outcome.status = "raised" /\ outcome.error = "PluginError")
           \/ \A id \in ValidUnitIds :
                 /\ id \in processed
                 /\ DeclaredBy(id) # {} =>
                       /\ UnitOf(id).name \in DOMAIN deps
                       /\ DeclaredBy(id) \subseteq deps[UnitOf(id).name]

\* C4: when a directory script cannot be loaded, only that unit's discovery is
\* aborted: once discovery has ended, every valid unit has been fully
\* processed and the attributions of the units processed before the failure
\* are in the registry handed to the caller.
C4_LoadFailureIsolated ==
    (/\ Finished
     /\ (\E i \in Scripts : files[i].kind = "loadfail")
     /\ (\A u \in UnitIds : UnitOf(u).kind \in {"register", "callable", "loadfail"})
     /\ (\A i \in 1..Len(eps) : eps[i].kind # "loadfail"))
        => (outcome.status = "raised" /\ outcome.error = "PluginError")
           \/ \A id \in ValidUnitIds :
                 /\ id \in processed
                 /\ DeclaredBy(id) # {} =>
                       /\ outcome.status = "returned"
                       /\ UnitOf(id).name \in DOMAIN outcome.registry
                       /\ DeclaredBy(id) \subseteq outcome.registry[UnitOf(id).name]

(***************************************************************************)
(* Requirement resolver                                                    *)
(*                                                                         *)
(* Strings are sequences of character codes, so that parsing, str.lower(), *)
(* sorted() and string equality are computed.                              *)
(***************************************************************************)

\* Bound of the resolver model: the number of requirement strings of a call.
MaxRequirements == 3

Lower(str) == [i \in 1..Len(str) |-> IF str[i] \in 65..90 THEN str[i] + 32 ELSE str[i]]

RECURSIVE Digits(_)
Digits(n) == IF n < 10 THEN <<48 + n>> ELSE Digits(n \div 10) \o <<48 + (n % 10)>>

RECURSIVE ToNat(_)
ToNat(digits) ==
    IF Len(digits) = 0 THEN 0
    ELSE 10 * ToNat(SubSeq(digits, 1, Len(digits) - 1)) + (digits[Len(digits)] - 48)

\* Python's order on str (and on tuples of int): lexicographic, a proper prefix first
SeqLess(a, b) ==
    \E k \in 1..(Len(b)) :
        /\ k - 1 <= Len(a)
        /\ \A i \in 1..(k - 1) : a[i] = b[i]
        /\ (k > Len(a) \/ a[k] < b[k])

RECURSIVE Join(_, _)
Join(strs, sep) ==
    IF Len(strs) = 0 THEN <<>>
    ELSE IF Len(strs) = 1 THEN strs[1]
    ELSE strs[1] \o sep \o Join(Tail(strs), sep)

\* str.split(sep) for a one-character separator
RECURSIVE Split(_, _)
Split(str, sep) ==
    IF \A i \in 1..Len(str) : str[i] # sep THEN <<str>>
    ELSE LET k == CHOOSE i \in 1..Len(str) :
                      str[i] = sep /\ \A j \in 1..(i - 1) : str[j] # sep
         IN <<SubSeq(str, 1, k - 1)>> \o Split(SubSeq(str, k + 1, Len(str)), sep)

\* the length of the longest prefix of str made of characters of `chars`
PrefixLen(str, chars) ==
    CHOOSE k \in 0..Len(str) :
        /\ \A i \in 1..k : str[i] \in chars
        /\ (k < Len(str) => str[k + 1] \notin chars)

\* sorted(S) for a set S of strings
RECURSIVE Sorted(_)
Sorted(S) ==
    IF S = {} THEN <<>>
    ELSE LET least == CHOOSE x \in S : \A y \in S \ {x} : SeqLess(x, y)
         IN <<least>> \o Sorted(S \ {least})

\* the text of a version token: release segments joined by "."
VersionText(v) == Join([i \in 1..Len(v) |-> Digits(v[i])], <<46>>)

\* the release segments a version token spells
VersionOf(str) == LET parts == Split(str, 46) IN [i \in 1..Len(parts) |-> ToNat(parts[i])]

OperatorText(op) ==
    CASE op = "==" -> <<61, 61>>
      [] op = "===" -> <<61, 61, 61>>
      [] op = ">=" -> <<62, 61>>
      [] op = "<" -> <<60>>

OperatorOf(str) ==
    CASE str = <<61, 61>> -> "=="
      [] str = <<61, 61, 61>> -> "==="
      [] str = <<62, 61>> -> ">="
      [] str = <<60>> -> "<"

\* str(Specifier)
SpecifierText(sp) == OperatorText(sp.op) \o VersionText(sp.ver)

\* Specifier(str): the operator, then the version token
Specifier(str) ==
    LET k == PrefixLen(str, {60, 61, 62})
    IN [op |-> OperatorOf(SubSeq(str, 1, k)), ver |-> VersionOf(SubSeq(str, k + 1, Len(str)))]

Letters == (65..90) \cup (97..122)

\* the grammar of a requirement string: a name, then comma-separated specifiers
ParseRequirement(str) ==
    LET k == PrefixLen(str, Letters)
        rest == SubSeq(str, k + 1, Len(str))
        parts == IF Len(rest) = 0 THEN <<>> ELSE Split(rest, 44)
    IN [name |-> SubSeq(str, 1, k), specs |-> [i \in 1..Len(parts) |-> Specifier(parts[i])]]

\* the release of Version(v) as compared: trailing zeros dropped
RECURSIVE StripTrailingZeros(_)
StripTrailingZeros(v) ==
    IF Len(v) > 0 /\ v[Len(v)] = 0 THEN StripTrailingZeros(SubSeq(v, 1, Len(v) - 1)) ELSE v

\* Version(a) < Version(b)
VersionLess(a, b) == SeqLess(StripTrailingZeros(a), StripTrailingZeros(b))

\* A faulty comparison: the order of the version strings.
VersionTextLess(a, b) == SeqLess(VersionText(a), VersionText(b))

\* the order max(pinned, key=Version) uses
KeyLess(a, b) == VersionLess(a, b)

\* Specifier.__eq__: same operator and same canonical version
SameSpecifier(sp, other) ==
    sp.op = other.op /\ StripTrailingZeros(sp.ver) = StripTrailingZeros(other.ver)

\* SpecifierSet.__and__: the union of the two sets of specifiers
SpecifierSetAnd(A, B) == A \cup {b \in B : ~\E a \in A : SameSpecifier(a, b)}

\* SpecifierSet("s1,s2,..."): the set of the specifiers spelled
RECURSIVE SpecifierSetOf(_)
SpecifierSetOf(specs) ==
    IF Len(specs) = 0 THEN {}
    ELSE SpecifierSetAnd(SpecifierSetOf(SubSeq(specs, 1, Len(specs) - 1)),
                         {specs[Len(specs)]})

\* Requirement(req_str)
Requirement(req_str) ==
    LET parsed == ParseRequirement(req_str)
    IN [name |-> parsed.name, specifier |-> SpecifierSetOf(parsed.specs)]

\* str(SpecifierSet): the specifiers' texts, sorted, joined by ","
SpecifierSetText(S) == Join(Sorted({SpecifierText(sp) : sp \in S}), <<44>>)

\* str(Requirement): name, then the specifier set
RequirementText(req) == req.name \o SpecifierSetText(req.specifier)

\* _parse_requirements: the names in order of first occurrence (the dict's
\* insertion order) and, per name, its requirements in input order
RECURSIVE GroupOrder(_)
GroupOrder(requirements) ==
    IF Len(requirements) = 0 THEN <<>>
    ELSE LET front == GroupOrder(SubSeq(requirements, 1, Len(requirements) - 1))
             name == Lower(Requirement(requirements[Len(requirements)]).name)
         IN IF \E i \in 1..Len(front) : front[i] = name THEN front ELSE Append(front, name)

GroupOf(requirements, name) ==
    LET all == [i \in 1..Len(requirements) |-> Requirement(requirements[i])]
    IN SelectSeq(all, LAMBDA req : Lower(req.name) = name)

\* pinned = {spec.version for r in reqs for spec in r.specifier if spec.operator in {"==", "==="}}
Pinned(reqs) ==
    {sp.ver : sp \in {t \in UNION {reqs[i].specifier : i \in 1..Len(reqs)} :
                         t.op \in {"==", "==="}}}

\* max(iterable, key=...): the first element no later one exceeds
RECURSIVE PyMax(_)
PyMax(items) ==
    IF Len(items) = 1 THEN items[1]
    ELSE LET best == PyMax(SubSeq(items, 1, Len(items) - 1))
             last == items[Len(items)]
         IN IF KeyLess(best, last) THEN last ELSE best

\* the elements of set S in the order iteration yields them
IterationOf(S, order) == SelectSeq(order, LAMBDA x : x \in S)

\* A faulty combination that keeps the last requirement's specifiers only.
LastSpecifierOnly(reqs) == reqs[Len(reqs)].specifier

\* spec = r.specifier if spec is None else spec & r.specifier, over the group
RECURSIVE CombinedSpecifier(_)
CombinedSpecifier(reqs) ==
    IF Len(reqs) = 1 THEN reqs[1].specifier
    ELSE SpecifierSetAnd(CombinedSpecifier(SubSeq(reqs, 1, Len(reqs) - 1)),
                         reqs[Len(reqs)].specifier)

\* A faulty resolution that suggests the highest pin whatever the flag.
AlwaysSuggest(name, reqs, auto_resolve, order) ==
    <<name \o <<61, 61>> \o VersionText(PyMax(IterationOf(Pinned(reqs), order)))>>

\* the entries resolved.append()ed for a group with conflicting pins
ConflictEntries(name, reqs, auto_resolve, order) ==
    IF auto_resolve
    THEN <<name \o <<61, 61>> \o VersionText(PyMax(IterationOf(Pinned(reqs), order)))>>
    ELSE <<>>

\* A faulty single-requirement branch that emits the normalized name.
SingleEntryLowercased(name, reqs) == <<name \o SpecifierSetText(reqs[1].specifier)>>

\* if len(reqs) == 1: resolved.append(str(reqs[0]))
SingleEntry(name, reqs) == <<RequirementText(reqs[1])>>

\* the entries resolved.append()ed for one group of grouped.items()
GroupEntries(name, reqs, auto_resolve, order) ==
    IF Len(reqs) = 1 THEN SingleEntry(name, reqs)
    ELSE IF Cardinality(Pinned(reqs)) > 1 THEN ConflictEntries(name, reqs, auto_resolve, order)
    ELSE <<name \o SpecifierSetText(CombinedSpecifier(reqs))>>

\* A faulty conflict test that reports every group holding a pin.
ConflictOnAnyPin(reqs) == Len(reqs) > 1 /\ Cardinality(Pinned(reqs)) > 0

\* a group reaches the conflict branch: len(reqs) > 1 and len(pinned) > 1
HasConflict(reqs) == Len(reqs) > 1 /\ Cardinality(Pinned(reqs)) > 1

RECURSIVE ResolvedOver(_, _, _, _)
ResolvedOver(names, requirements, auto_resolve, order) ==
    IF Len(names) = 0 THEN <<>>
    ELSE GroupEntries(names[1], GroupOf(requirements, names[1]), auto_resolve, order)
         \o ResolvedOver(Tail(names), requirements, auto_resolve, order)

\* resolve_conflicts(requirements, auto_resolve); `order` is the order in which
\* iterating the set `pinned` yields the version tokens
resolve_conflicts(requirements, auto_resolve, order) ==
    LET names == GroupOrder(requirements)
        conflicting == {names[i] : i \in {j \in 1..Len(names) :
                                            HasConflict(GroupOf(requirements, names[j]))}}
    IN [resolved |-> ResolvedOver(names, requirements, auto_resolve, order),
        conflicts |-> [n \in conflicting |->
                          LET reqs == GroupOf(requirements, n)
                          IN [i \in 1..Len(reqs) |-> RequirementText(reqs[i])]]]

\* ---- the inputs of the resolver model ----
PKG == <<112, 107, 103>>
PkgCapital == <<80, 107, 103>>
LIB == <<108, 105, 98>>

Sp(op, ver) == [op |-> op, ver |-> ver]
\* the requirement string that spells `name` and then `specs`, in this order
Text(name, specs) ==
    name \o Join([i \in 1..Len(specs) |-> SpecifierText(specs[i])], <<44>>)

RequirementStrings ==
    { Text(PKG, <<>>),                                      \* "pkg"
      Text(PKG, <<Sp("==", <<1>>)>>),                       \* "pkg==1"
      Text(PKG, <<Sp("==", <<1, 0>>)>>),                    \* "pkg==1.0"
      Text(PKG, <<Sp("==", <<9>>)>>),                       \* "pkg==9"
      Text(PKG, <<Sp("==", <<10>>)>>),                      \* "pkg==10"
      Text(PKG, <<Sp(">=", <<1>>), Sp("<", <<2>>)>>),       \* "pkg>=1,<2"
      Text(PKG, <<Sp("==", <<1>>), Sp("==", <<2>>)>>),      \* "pkg==1,==2"
      Text(PkgCapital, <<Sp("===", <<10>>)>>),              \* "Pkg===10"
      Text(PkgCapital, <<Sp(">=", <<1, 0>>)>>),             \* "Pkg>=1.0"
      Text(LIB, <<Sp("==", <<2>>)>>),                       \* "lib==2"
      Text(LIB, <<Sp("<", <<2>>), Sp(">=", <<1>>)>>) }      \* "lib<2,>=1"

AllPinned(requirements) ==
    {sp.ver : sp \in {t \in UNION {Requirement(requirements[i]).specifier :
                                      i \in 1..Len(requirements)} : t.op \in {"==", "==="}}}

\* every order in which the elements of S can be enumerated
Enumerations(S) ==
    {f \in [1..Cardinality(S) -> S] : \A i, j \in 1..Cardinality(S) : i # j => f[i] # f[j]}

Reorderings(requirements) ==
    {[i \in 1..Len(requirements) |-> requirements[f[i]]] : f \in Enumerations(1..Len(requirements))}

PluginsIdle ==
    /\ eps = <<>> /\ files = <<>> /\ phase = "eps" /\ idx = 1 /\ dpc = "idle"
    /\ deps = EmptyMap /\ cur = None /\ exc = None /\ ncalls = 0
    /\ declared = EmptyMap /\ processed = {} /\ outcome = [status |-> "idle"]

InitResolve ==
    /\ PluginsIdle
    /\ EnvIdle
    /\ InstallIdle
    /\ SetupIdle
    /\ KeysIdle
    /\ SelectIdle
    /\ RegistryIdle
    /\ RaceIdle
    /\ GuiIdle
    /\ rq \in SeqsUpTo(RequirementStrings, MaxRequirements)
    /\ auto \in BOOLEAN
    /\ rpc = "init"
    /\ rres = None /\ rq2 = <<>> /\ rres2 = None

\* resolve_conflicts(requirements, auto_resolve)
CallResolve ==
    /\ rpc = "init"
    /\ \E order \in Enumerations(AllPinned(rq)) :
          rres' = resolve_conflicts(rq, auto, order)
    /\ rpc' = "called"
    /\ UNCHANGED <<rq, auto, rq2, rres2>>
    /\ UNCHANGED <<pluginVars, envVars, installVars, setupVars, keyVars, selectVars, registryVars, raceVars, guiVars>>

\* a second call with the same multiset of strings, in any order, and the same flag
CallResolveReordered ==
    /\ rpc = "called"
    /\ \E again \in Reorderings(rq) :
          /\ rq2' = again
          /\ \E order \in Enumerations(AllPinned(again)) :
                rres2' = resolve_conflicts(again, auto, order)
    /\ rpc' = "done"
    /\ UNCHANGED <<rq, auto, rres>>
    /\ UNCHANGED <<pluginVars, envVars, installVars, setupVars, keyVars, selectVars, registryVars, raceVars, guiVars>>

NextResolve == CallResolve

SpecResolve == InitResolve /\ [][NextResolve]_vars

NextResolveTwice == CallResolve \/ CallResolveReordered

SpecResolveTwice == InitResolve /\ [][NextResolveTwice]_vars

(***************************************************************************)
(* Properties of the resolver.  What the input declares is read off the    *)
(* input strings by the grammar alone.                                     *)
(***************************************************************************)

NameOf(str) == Lower(ParseRequirement(str).name)
NamesIn(requirements) == {NameOf(requirements[i]) : i \in 1..Len(requirements)}
\* the strings that declare package n, in declared order
DeclaredFor(requirements, n) == SelectSeq(requirements, LAMBDA str : NameOf(str) = n)
SpecsSpelled(str) == LET parsed == ParseRequirement(str)
                     IN {parsed.specs[i] : i \in 1..Len(parsed.specs)}
SpecsDeclaredFor(requirements, n) ==
    UNION {SpecsSpelled(requirements[i]) : i \in {j \in 1..Len(requirements) :
                                                     NameOf(requirements[j]) = n}}
\* the distinct exact-pin version tokens declared for package n
PinTokens(requirements, n) ==
    {sp.ver : sp \in {t \in SpecsDeclaredFor(requirements, n) : t.op \in {"==", "==="}}}
\* the positions of the resolved entries that name package n
EntriesFor(resolved, n) == {i \in 1..Len(resolved) : NameOf(resolved[i]) = n}

SameSpecifiers(A, B) ==
    /\ \A a \in A : \E b \in B : SameSpecifier(a, b)
    /\ \A b \in B : \E a \in A : SameSpecifier(a, b)
\* the two strings spell the same requirement: same name, same specifiers
SameRequirement(a, b) ==
    /\ ParseRequirement(a).name = ParseRequirement(b).name
    /\ SameSpecifiers(SpecsSpelled(a), SpecsSpelled(b))
\* the string is written the way str(Requirement) writes it
IsNormalized(str) ==
    LET parsed == ParseRequirement(str)
    IN \A i, j \in 1..Len(parsed.specs) :
          i < j => SeqLess(SpecifierText(parsed.specs[i]), SpecifierText(parsed.specs[j]))
EqualUpToNormalization(out, in) ==
    /\ SameRequirement(out, in)
    /\ IsNormalized(in) => out = in

\* version v satisfies the specifier
Matches(v, sp) ==
    CASE sp.op = "==" -> StripTrailingZeros(v) = StripTrailingZeros(sp.ver)
      [] sp.op = "===" -> v = sp.ver
      [] sp.op = ">=" -> ~VersionLess(v, sp.ver)
      [] sp.op = "<" -> VersionLess(v, sp.ver)
CandidateVersions == {<<0>>, <<1>>, <<1, 0>>, <<1, 5>>, <<2>>, <<9>>, <<10>>, <<11>>}

\* package n is declared by several strings that pin more than one version token
ConflictingPins(requirements, n) ==
    Len(DeclaredFor(requirements, n)) > 1 /\ Cardinality(PinTokens(requirements, n)) > 1

\* C5: for a package whose group (of more than one requirement) holds more
\* than one distinct exact-pin version, resolve_conflicts with
\* auto_resolve=True records conflicts[name] as the group's requirement
\* strings (normalization aside) in declared order and emits exactly one
\* resolved entry name==V, V being a pinned version that no pinned version
\* exceeds under version comparison.
C5_AutoResolveHighestPin ==
    (rpc = "called" /\ auto) =>
        \A n \in NamesIn(rq) : ConflictingPins(rq, n) =>
            LET group == DeclaredFor(rq, n)
                entries == EntriesFor(rres.resolved, n)
            IN /\ n \in DOMAIN rres.conflicts
               /\ Len(rres.conflicts[n]) = Len(group)
               /\ \A k \in 1..Len(group) :
                     EqualUpToNormalization(rres.conflicts[n][k], group[k])
               /\ Cardinality(entries) = 1
               /\ \E V \in PinTokens(rq, n) :
                     /\ \A i \in entries : rres.resolved[i] = n \o <<61, 61>> \o VersionText(V)
                     /\ \A W \in PinTokens(rq, n) : ~VersionLess(V, W)

\* ["pkg==9", "pkg==10"] resolved to ["pkg==10"]: 10 is above 9 as a version
\* and below it as a string
C5_Witness ==
    /\ rpc = "called" /\ auto
    /\ rq = <<Text(PKG, <<Sp("==", <<9>>)>>), Text(PKG, <<Sp("==", <<10>>)>>)>>
    /\ rres.resolved = <<Text(PKG, <<Sp("==", <<10>>)>>)>>
    /\ rres.conflicts[PKG] = rq

\* C6: with auto_resolve=False the conflicts recorded are those recorded with
\* auto_resolve=True, no resolved entry is emitted for a package with
\* conflicting pins, and the entries of all other packages are those emitted
\* with auto_resolve=True, in the same order.
C6_NoAutoResolveEmitsNothing ==
    (rpc = "called" /\ ~auto) =>
        \A order \in Enumerations(AllPinned(rq)) :
            LET withAuto == resolve_conflicts(rq, TRUE, order)
            IN /\ rres.conflicts = withAuto.conflicts
               /\ \A n \in NamesIn(rq) : ConflictingPins(rq, n) =>
                     /\ n \in DOMAIN rres.conflicts
                     /\ EntriesFor(rres.resolved, n) = {}
               /\ rres.resolved =
                     SelectSeq(withAuto.resolved,
                               LAMBDA str : ~ConflictingPins(rq, NameOf(str)))

\* ["pkg==1", "lib==2", "pkg==9"] without auto_resolve: only lib is emitted
C6_Witness ==
    /\ rpc = "called" /\ ~auto
    /\ rq = <<Text(PKG, <<Sp("==", <<1>>)>>), Text(LIB, <<Sp("==", <<2>>)>>),
              Text(PKG, <<Sp("==", <<9>>)>>)>>
    /\ rres.resolved = <<Text(LIB, <<Sp("==", <<2>>)>>)>>
    /\ DOMAIN rres.conflicts = {PKG}

\* C7: when every normalized package name occurs in exactly one requirement
\* string, then for either value of auto_resolve the resolved list has exactly
\* one entry per package, the i-th entry being the i-th input requirement
\* (normalization aside: byte-identical when the input is written in
\* normalized form), and conflicts is empty.
C7_SingletonsUnchanged ==
    (rpc = "called" /\ \A n \in NamesIn(rq) : Len(DeclaredFor(rq, n)) = 1) =>
        /\ DOMAIN rres.conflicts = {}
        /\ Len(rres.resolved) = Len(rq)
        /\ \A i \in 1..Len(rq) : EqualUpToNormalization(rres.resolved[i], rq[i])
        /\ \A n \in NamesIn(rq) : Cardinality(EntriesFor(rres.resolved, n)) = 1

\* ["Pkg>=1.0", "lib<2,>=1"] comes back as it went in
C7_Witness ==
    /\ rpc = "called"
    /\ rq = <<Text(PkgCapital, <<Sp(">=", <<1, 0>>)>>),
              Text(LIB, <<Sp("<", <<2>>), Sp(">=", <<1>>)>>)>>
    /\ rres.resolved = rq
    /\ DOMAIN rres.conflicts = {}

\* C8: for a package group of size greater than one with zero or one distinct
\* pinned version token, resolve_conflicts records no conflict and emits
\* exactly one requirement for the package, whose specifiers are those
\* declared in the group and which a version satisfies exactly when it
\* satisfies every specifier declared in the group.
C8_CombinedSpecifiers ==
    rpc = "called" =>
        \A n \in NamesIn(rq) :
            (Len(DeclaredFor(rq, n)) > 1 /\ Cardinality(PinTokens(rq, n)) <= 1) =>
                LET entries == EntriesFor(rres.resolved, n)
                IN /\ n \notin DOMAIN rres.conflicts
                   /\ Cardinality(entries) = 1
                   /\ \A i \in entries :
                         /\ ParseRequirement(rres.resolved[i]).name = n
                         /\ SameSpecifiers(SpecsSpelled(rres.resolved[i]),
                                           SpecsDeclaredFor(rq, n))
                         /\ \A v \in CandidateVersions :
                               (\A sp \in SpecsSpelled(rres.resolved[i]) : Matches(v, sp))
                               <=> (\A sp \in SpecsDeclaredFor(rq, n) : Matches(v, sp))

\* ["pkg>=1,<2", "pkg==1"] combined into "pkg<2,==1,>=1"
C8_Witness ==
    /\ rpc = "called"
    /\ rq = <<Text(PKG, <<Sp(">=", <<1>>), Sp("<", <<2>>)>>), Text(PKG, <<Sp("==", <<1>>)>>)>>
    /\ rres.resolved = <<Text(PKG, <<Sp("<", <<2>>), Sp("==", <<1>>), Sp(">=", <<1>>)>>)>>
    /\ DOMAIN rres.conflicts = {}

\* C9: two calls of resolve_conflicts with the same multiset of requirement
\* strings, in any two orders, and the same flag return the same resolved
\* sequence and the same conflicts mapping.
C9_OrderIndependent ==
    rpc = "done" => rres2 = rres

(***************************************************************************)
(* Environment provisioner                                                 *)
(***************************************************************************)

\* env_path = BASE_DIR / name
EnvPath(name) == [base |-> "~/.windows_ai/venvs", name |-> name]
\* str(path)
PathText(path) == path.base \o "/" \o path.name

\* values of WINDOWS_AI_USE_CONDA, as character codes: "1", "0", "False", "NO", ""
EnvVarValues ==
    {Unset} \cup {[set |-> TRUE, value |-> v] :
                     v \in {<<49>>, <<48>>, <<70, 97, 108, 115, 101>>, <<78, 79>>, <<>>}}
Falsy == {<<48>>, <<102, 97, 108, 115, 101>>, <<110, 111>>}

\* A faulty _use_conda that compares the value without lower-casing it.
CaseSensitiveUseConda(value, onPath) ==
    IF value.set THEN value.value \notin Falsy ELSE onPath

\* _use_conda()
use_conda(value, onPath) ==
    IF value.set THEN Lower(value.value) \notin Falsy ELSE onPath

\* backend = backend or ("conda" if _use_conda() else "venv")
BackendArgs == {None, "venv", "conda"}
SelectBackend(backend, value, onPath) ==
    IF backend # None THEN backend
    ELSE IF use_conda(value, onPath) THEN "conda" ELSE "venv"

\* lines 65-68: conda create for the backend "conda", venv.EnvBuilder otherwise
CreationTool(backend) == IF backend = "conda" THEN "conda" ELSE "venv"

\* A faulty create_env that builds the environment on every call.
AlwaysCreate(dirs, name) == TRUE

\* if not env_path.exists():
NeedsCreation(dirs, name) == dirs[name] = "absent"

\* JSON documents: a mapping (object) or a value of another JSON type; for the
\* code only the type of such a value matters, not what it holds
JsonObject(map) == [kind |-> "object", items |-> map]
NonMappingKinds == {"array", "string", "null"}
JsonOther(kind) == [kind |-> kind]
\* ENV_RECORD_FILE holding the text of a JSON document, or text that is not JSON
RecordFile(doc) == [exists |-> TRUE, parsable |-> TRUE, doc |-> doc]
UnparsableRecord == [exists |-> TRUE, parsable |-> FALSE]

\* json.loads(ENV_RECORD_FILE.read_text()): the document, or an exception
json_loads(file) ==
    IF file.parsable THEN [raised |-> FALSE, value |-> file.doc] ELSE [raised |-> TRUE]

\* A faulty _record_env_path that never reads the file back.
ReadNothing(file) == JsonObject(EmptyMap)

\* _record_env_path, lines 38-43: {} unless the file exists and parses
ReadForUpdate(file) ==
    IF ~file.exists THEN JsonObject(EmptyMap)
    ELSE IF json_loads(file).raised THEN JsonObject(EmptyMap)
    ELSE json_loads(file).value

\* load_recorded_envs(): {} unless the file exists and parses
load_recorded_envs(file) ==
    IF ~file.exists THEN JsonObject(EmptyMap)
    ELSE IF json_loads(file).raised THEN JsonObject(EmptyMap)
    ELSE json_loads(file).value

\* data[name] = str(path) is an item assignment a dict accepts; a list, a str
\* and None raise TypeError for a str key
AcceptsItemAssignment(value) == value.kind = "object"

\* the record files found at start: none, one that is not JSON, one that holds
\* a JSON value other than an object
FoundRecords ==
    {NoRecord, UnparsableRecord} \cup {RecordFile(JsonOther(k)) : k \in NonMappingKinds}

\* A faulty _record_env_path that writes a mapping holding the new entry only.
RecordOnlyNew(data, name, path) == [k \in {name} |-> PathText(path)]

\* A faulty _record_env_path that writes the mapping back without the new entry.
RecordUntouched(data, name, path) == data

\* data[name] = str(path) on the mapping read from the record file
RecordWith(data, name, path) ==
    [k \in DOMAIN data \cup {name} |-> IF k = name THEN PathText(path) ELSE data[k]]

InitEnv ==
    /\ PluginsIdle
    /\ ResolveIdle
    /\ InstallIdle
    /\ SetupIdle
    /\ KeysIdle
    /\ SelectIdle
    /\ RegistryIdle
    /\ RaceIdle
    /\ GuiIdle
    /\ envVar \in EnvVarValues
    /\ condaOnPath \in BOOLEAN
    /\ envDirs = [n \in EnvNames |-> "absent"]
    /\ record \in FoundRecords
    /\ loaded = NoCall
    /\ epc = "idle"
    /\ call = NoCall
    /\ lastCall = NoCall
    /\ prevCall = NoCall

\* create_env(name, backend): lines 62-63
CreateEnvCall ==
    /\ epc = "idle"
    /\ \E name \in EnvNames, backend \in BackendArgs :
          call' = [status |-> "running", name |-> name, arg |-> backend,
                   env_path |-> EnvPath(name),
                   backend |-> SelectBackend(backend, envVar, condaOnPath),
                   tool |-> "none",
                   existed |-> FALSE, created |-> FALSE, file |-> NoRecord,
                   data |-> JsonObject(EmptyMap)]
    /\ epc' = "check"
    /\ UNCHANGED <<envVar, condaOnPath, envDirs, record, loaded, lastCall, prevCall>>
    /\ UNCHANGED <<pluginVars, resolveVars, installVars, setupVars, keyVars, selectVars, registryVars, raceVars, guiVars>>

\* line 64: if not env_path.exists()
ExistsCheck ==
    /\ epc = "check"
    /\ IF NeedsCreation(envDirs, call.name)
       THEN /\ epc' = "create"
            /\ call' = [call EXCEPT !.existed = envDirs[call.name] # "absent"]
       ELSE /\ epc' = "record_read"
            /\ call' = [call EXCEPT !.existed = TRUE]
    /\ UNCHANGED <<envVar, condaOnPath, envDirs, record, loaded, lastCall, prevCall>>
    /\ UNCHANGED <<pluginVars, resolveVars, installVars, setupVars, keyVars, selectVars, registryVars, raceVars, guiVars>>

\* lines 65-68: conda create / venv.EnvBuilder.create succeeds
CreationSucceeds ==
    /\ epc = "create"
    /\ envDirs' = [envDirs EXCEPT ![call.name] = "complete"]
    /\ call' = [call EXCEPT !.created = TRUE, !.tool = CreationTool(call.backend)]
    /\ epc' = "record_read"
    /\ UNCHANGED <<envVar, condaOnPath, record, loaded, lastCall, prevCall>>
    /\ UNCHANGED <<pluginVars, resolveVars, installVars, setupVars, keyVars, selectVars, registryVars, raceVars, guiVars>>

\* lines 65-68: the subprocess or the builder raises; the directory may be left behind
CreationFails ==
    /\ epc = "create"
    /\ \E left \in {envDirs[call.name], "partial"} :
          envDirs' = [envDirs EXCEPT ![call.name] = left]
    /\ prevCall' = lastCall
    /\ lastCall' = [name |-> call.name, status |-> "raised", error |-> "creation",
                    arg |-> call.arg, tool |-> CreationTool(call.backend),
                    existed |-> call.existed, created |-> FALSE, backend |-> call.backend,
                    recording |-> FALSE, file |-> NoRecord]
    /\ call' = NoCall
    /\ epc' = "idle"
    /\ UNCHANGED <<envVar, condaOnPath, record, loaded>>
    /\ UNCHANGED <<pluginVars, resolveVars, installVars, setupVars, keyVars, selectVars, registryVars, raceVars, guiVars>>

\* _record_env_path, lines 37-43: read the record file
ReadRecord ==
    /\ epc = "record_read"
    /\ call' = [call EXCEPT !.file = record, !.data = ReadForUpdate(record)]
    /\ epc' = "record_write"
    /\ UNCHANGED <<envVar, condaOnPath, envDirs, record, loaded, lastCall, prevCall>>
    /\ UNCHANGED <<pluginVars, resolveVars, installVars, setupVars, keyVars, selectVars, registryVars, raceVars, guiVars>>

\* _record_env_path, lines 44-45, then return env_path
WriteRecordAndReturn ==
    /\ epc = "record_write"
    /\ AcceptsItemAssignment(call.data)
    /\ record' = RecordFile(JsonObject(RecordWith(call.data.items, call.name, call.env_path)))
    /\ prevCall' = lastCall
    /\ lastCall' = [name |-> call.name, status |-> "returned", location |-> call.env_path,
                    arg |-> call.arg, tool |-> call.tool,
                    existed |-> call.existed, created |-> call.created,
                    backend |-> call.backend, recording |-> TRUE, file |-> call.file]
    /\ call' = NoCall
    /\ epc' = "idle"
    /\ UNCHANGED <<envVar, condaOnPath, envDirs, loaded>>
    /\ UNCHANGED <<pluginVars, resolveVars, installVars, setupVars, keyVars, selectVars, registryVars, raceVars, guiVars>>

\* _record_env_path, line 44 on a value that is not a dict: TypeError, which
\* neither _record_env_path nor create_env catches
RecordAssignmentRaises ==
    /\ epc = "record_write"
    /\ ~AcceptsItemAssignment(call.data)
    /\ prevCall' = lastCall
    /\ lastCall' = [name |-> call.name, status |-> "raised", error |-> "TypeError",
                    arg |-> call.arg, tool |-> call.tool,
                    existed |-> call.existed, created |-> call.created,
                    backend |-> call.backend, recording |-> TRUE, file |-> call.file]
    /\ call' = NoCall
    /\ epc' = "idle"
    /\ UNCHANGED <<envVar, condaOnPath, envDirs, record, loaded>>
    /\ UNCHANGED <<pluginVars, resolveVars, installVars, setupVars, keyVars, selectVars, registryVars, raceVars, guiVars>>

\* load_recorded_envs(), called between two create_env calls
LoadRecordedEnvs ==
    /\ epc = "idle"
    /\ loaded' = [status |-> "returned", file |-> record, value |-> load_recorded_envs(record)]
    /\ UNCHANGED <<envVar, condaOnPath, envDirs, record, epc, call, lastCall, prevCall>>
    /\ UNCHANGED <<pluginVars, resolveVars, installVars, setupVars, keyVars, selectVars, registryVars, raceVars, guiVars>>

NextEnv ==
    \/ CreateEnvCall
    \/ ExistsCheck
    \/ CreationSucceeds
    \/ CreationFails
    \/ ReadRecord
    \/ WriteRecordAndReturn
    \/ RecordAssignmentRaises
    \/ LoadRecordedEnvs

SpecEnv == InitEnv /\ [][NextEnv]_vars

\* C10: of two consecutive create_env calls with the same name that return,
\* the second returns the location the first returned and performs no
\* environment creation; and no call that finds the location existing
\* performs a creation, whatever backend it selected.
C10_SecondCallIsCacheHit ==
    /\ (/\ lastCall.status = "returned" /\ prevCall.status = "returned"
        /\ lastCall.name = prevCall.name)
           => /\ lastCall.location = prevCall.location
              /\ ~lastCall.created
    /\ (lastCall.status = "returned" /\ lastCall.existed) => ~lastCall.created

\* the first call built the environment with venv, the second one, which
\* selected conda, found it and built nothing
C10_Witness ==
    /\ lastCall.status = "returned" /\ prevCall.status = "returned"
    /\ lastCall.name = prevCall.name
    /\ prevCall.created /\ prevCall.backend = "venv"
    /\ lastCall.backend = "conda" /\ lastCall.existed /\ ~lastCall.created
    /\ lastCall.location = EnvPath(lastCall.name)

\* C11: every create_env call that returns, whether it built the environment
\* or found the location existing, leaves the persisted record mapping the
\* name to the string form of the location it returned.
C11_RecordHoldsReturnedLocation ==
    lastCall.status = "returned"
        => /\ record.exists /\ record.parsable /\ record.doc.kind = "object"
           /\ lastCall.name \in DOMAIN record.doc.items
           /\ record.doc.items[lastCall.name] = PathText(lastCall.location)

\* a cache hit on a directory left behind by a failed creation: nothing was
\* built by the call, the name was not recorded before it, and it is recorded now
C11_Witness ==
    /\ prevCall.status = "raised" /\ prevCall.name = lastCall.name
    /\ lastCall.status = "returned" /\ lastCall.existed /\ ~lastCall.created
    /\ record = RecordFile(JsonObject([n \in {lastCall.name} |->
                                        "~/.windows_ai/venvs/" \o lastCall.name]))

\* the file content is a readable name-to-path mapping
ReadableMapping(file) == file.exists /\ file.parsable /\ file.doc.kind = "object"

\* C12: whenever the record file is not a readable name-to-path mapping
\* (absent, not JSON, or JSON that is not an object), load_recorded_envs
\* returns the empty mapping, and a create_env call that reaches the record
\* update returns and leaves a record containing its name-to-location entry.
C12_RecordNeverFatal ==
    /\ (loaded.status = "returned" /\ ~ReadableMapping(loaded.file))
           => loaded.value = JsonObject(EmptyMap)
    /\ (lastCall.status # "none" /\ lastCall.recording /\ ~ReadableMapping(lastCall.file))
           => /\ lastCall.status = "returned"
              /\ ReadableMapping(record)
              /\ lastCall.name \in DOMAIN record.doc.items
              /\ record.doc.items[lastCall.name] = PathText(lastCall.location)

(***************************************************************************)
(* Package installation: install_packages                                  *)
(***************************************************************************)

\* Bound of the installation model: the length of a package list.
MaxPackages == 2

OsNames == {"nt", "posix"}

\* env_path / ("Scripts" if os.name == "nt" else "bin") / "python"
python_executable(env_path, os) ==
    [env |-> env_path, dir |-> IF os = "nt" THEN "Scripts" ELSE "bin", file |-> "python"]

\* A faulty command line that names the first package only.
FirstPackageOnly(python, packages) ==
    [program |-> python, options |-> <<"-m", "pip", "install">>,
     packages |-> SubSeq(packages, 1, 1)]

\* [python, "-m", "pip", "install", *packages]
PipCommand(python, packages) ==
    [program |-> python, options |-> <<"-m", "pip", "install">>, packages |-> packages]

\* the exit status of the pip process
ExitCodes == {0, 1}

\* A faulty check_call that ignores the exit status.
NeverRaises(code) == FALSE

\* subprocess.check_call raises CalledProcessError for a non-zero exit status
CheckCallRaises(code) == code # 0

\* if not packages: return
NothingToInstall(packages) == Len(packages) = 0

\* the package specifiers of the installation model: "pkg==9", "pkg==10", "lib==2"
PackageStrings ==
    { Text(PKG, <<Sp("==", <<9>>)>>), Text(PKG, <<Sp("==", <<10>>)>>),
      Text(LIB, <<Sp("==", <<2>>)>>) }

InitInstall ==
    /\ PluginsIdle
    /\ ResolveIdle
    /\ EnvIdle
    /\ SetupIdle
    /\ KeysIdle
    /\ SelectIdle
    /\ RegistryIdle
    /\ RaceIdle
    /\ GuiIdle
    /\ osName \in OsNames
    /\ ipc = "idle" /\ icall = NoCall /\ invocations = <<>> /\ ilast = NoCall

\* install_packages(env_path, packages), line 81: packages = list(packages)
InstallPackagesCall ==
    /\ ipc = "idle"
    /\ \E name \in EnvNames, packages \in SeqsUpTo(PackageStrings, MaxPackages) :
          icall' = [status |-> "running", env_path |-> EnvPath(name), packages |-> packages]
    /\ invocations' = <<>>
    /\ ipc' = "called"
    /\ UNCHANGED <<osName, ilast>>
    /\ UNCHANGED <<pluginVars, resolveVars, envVars, setupVars, keyVars, selectVars, registryVars, raceVars, guiVars>>

\* lines 82-83: an empty list returns at once
InstallNothing ==
    /\ ipc = "called"
    /\ NothingToInstall(icall.packages)
    /\ ilast' = [status |-> "returned", env_path |-> icall.env_path,
                 packages |-> icall.packages]
    /\ icall' = NoCall
    /\ ipc' = "idle"
    /\ UNCHANGED <<osName, invocations>>
    /\ UNCHANGED <<pluginVars, resolveVars, envVars, setupVars, keyVars, selectVars, registryVars, raceVars, guiVars>>

\* lines 84-86: check_call starts the pip process and waits for it
StartPip ==
    /\ ipc = "called"
    /\ ~NothingToInstall(icall.packages)
    /\ invocations' = Append(invocations,
                             PipCommand(python_executable(icall.env_path, osName),
                                        icall.packages))
    /\ ipc' = "waiting"
    /\ UNCHANGED <<osName, icall, ilast>>
    /\ UNCHANGED <<pluginVars, resolveVars, envVars, setupVars, keyVars, selectVars, registryVars, raceVars, guiVars>>

\* line 86: the process exits with status 0, check_call and install_packages return
PipSucceeds ==
    /\ ipc = "waiting"
    /\ \E code \in ExitCodes :
          /\ ~CheckCallRaises(code)
          /\ ilast' = [status |-> "returned", env_path |-> icall.env_path,
                       packages |-> icall.packages, exit |-> code]
    /\ icall' = NoCall
    /\ ipc' = "idle"
    /\ UNCHANGED <<osName, invocations>>
    /\ UNCHANGED <<pluginVars, resolveVars, envVars, setupVars, keyVars, selectVars, registryVars, raceVars, guiVars>>

\* line 86: the process exits with another status, check_call raises
\* CalledProcessError(returncode, cmd), which install_packages does not catch
PipFails ==
    /\ ipc = "waiting"
    /\ \E code \in ExitCodes :
          /\ CheckCallRaises(code)
          /\ ilast' = [status |-> "raised", env_path |-> icall.env_path,
                       packages |-> icall.packages,
                       error |-> [type |-> "CalledProcessError", returncode |-> code,
                                  cmd |-> invocations[Len(invocations)]]]
    /\ icall' = NoCall
    /\ ipc' = "idle"
    /\ UNCHANGED <<osName, invocations>>
    /\ UNCHANGED <<pluginVars, resolveVars, envVars, setupVars, keyVars, selectVars, registryVars, raceVars, guiVars>>

InstallSteps ==
    \/ InstallNothing
    \/ StartPip
    \/ PipSucceeds
    \/ PipFails

NextInstall ==
    \/ InstallPackagesCall
    \/ InstallSteps

SpecInstall == InitInstall /\ [][NextInstall]_vars

(***************************************************************************)
(* Install paths: env_setup.setup_all, cli.install_all and the installer   *)
(* GUI's _run_install.  Each runs create_env and install_packages, whose   *)
(* steps are the actions above, once per plugin.                           *)
(***************************************************************************)

\* Bound of the install path model: the number of runs, one after the other.
MaxRuns == 2

\* the characters of a plugin name
NameText(name) == CASE name = "a" -> <<97>> [] name = "b" -> <<98>>

\* A faulty loop header that takes the plugins in descending name order.
RECURSIVE DescendingNames(_)
DescendingNames(S) ==
    IF S = {} THEN <<>>
    ELSE LET greatest == CHOOSE x \in S :
                              \A y \in S \ {x} : SeqLess(NameText(y), NameText(x))
         IN <<greatest>> \o DescendingNames(S \ {greatest})

\* the names of sorted(registry.dependencies.items()): keys are distinct, so
\* the pairs are ordered by key
RECURSIVE SortedNames(_)
SortedNames(S) ==
    IF S = {} THEN <<>>
    ELSE LET least == CHOOSE x \in S : \A y \in S \ {x} : SeqLess(NameText(x), NameText(y))
         IN <<least>> \o SortedNames(S \ {least})

\* the dependency sets a plugin may have declared:
\* {"pkg==9"}, {"pkg==9", "pkg==10"}, {"pkg", "lib==2"}
DependencySets ==
    { {Text(PKG, <<Sp("==", <<9>>)>>)},
      {Text(PKG, <<Sp("==", <<9>>)>>), Text(PKG, <<Sp("==", <<10>>)>>)},
      {Text(PKG, <<>>), Text(LIB, <<Sp("==", <<2>>)>>)} }

\* registry.dependencies after discovery: every key has a non-empty set
Registries == UNION {[D -> DependencySets] : D \in SUBSET EnvNames}

\* a fresh machine without conda: no environment, no record file
InitSetup ==
    /\ PluginsIdle
    /\ ResolveIdle
    /\ KeysIdle
    /\ SelectIdle
    /\ RegistryIdle
    /\ RaceIdle
    /\ GuiIdle
    /\ envVar = Unset
    /\ condaOnPath = FALSE
    /\ envDirs = [n \in EnvNames |-> "absent"]
    /\ record = NoRecord
    /\ loaded = NoCall
    /\ epc = "idle" /\ call = NoCall /\ lastCall = NoCall /\ prevCall = NoCall
    /\ osName = "posix"
    /\ ipc = "idle" /\ icall = NoCall /\ invocations = <<>> /\ ilast = NoCall
    /\ registry \in Registries
    /\ autoResolve \in BOOLEAN
    /\ entry = None /\ spc = "idle" /\ todo = <<>> /\ locals = NoCall
    /\ report = EmptyMap /\ log = <<>> /\ runs = 0
    /\ lastRun = NoCall /\ prevRun = NoCall

\* setup_all(search_path, auto_resolve), lines 92-95: discovery, an empty report,
\* the loop over the sorted items
SetupAllCall ==
    /\ spc = "idle" /\ runs < MaxRuns
    /\ entry' = "setup_all"
    /\ todo' = SortedNames(DOMAIN registry)
    /\ report' = EmptyMap
    /\ log' = <<>>
    /\ locals' = NoCall
    /\ spc' = "loop"
    /\ UNCHANGED <<registry, autoResolve, runs, lastRun, prevRun>>
    /\ UNCHANGED <<pluginVars, resolveVars, envVars, installVars, keyVars, selectVars, registryVars, raceVars, guiVars>>

\* the run ends: the caller gets the report or the exception
EndOfRun(status, error) ==
    /\ prevRun' = lastRun
    /\ lastRun' = [status |-> status, entry |-> entry, error |-> error,
                   report |-> report', log |-> log']
    /\ runs' = runs + 1
    /\ spc' = "idle"
    /\ todo' = <<>>
    /\ locals' = NoCall

\* cli.install_all(), lines 21-26
CliInstallAll ==
    /\ spc = "idle" /\ runs < MaxRuns
    /\ entry' = "cli"
    /\ report' = EmptyMap
    /\ log' = <<>>
    /\ IF DOMAIN registry = {}
       THEN EndOfRun("returned", NoCall)
       ELSE /\ todo' = SortedNames(DOMAIN registry)
            /\ locals' = NoCall
            /\ spc' = "loop"
            /\ UNCHANGED <<runs, lastRun, prevRun>>
    /\ UNCHANGED <<registry, autoResolve>>
    /\ UNCHANGED <<pluginVars, resolveVars, envVars, installVars, keyVars, selectVars, registryVars, raceVars, guiVars>>

\* InstallerGUI._run_install(selected_plugins): the plugins whose box is ticked,
\* in the order of component_vars, which is filled in sorted order
GuiRunInstall ==
    /\ spc = "idle" /\ runs < MaxRuns
    /\ entry' = "gui"
    /\ \E ticked \in (SUBSET DOMAIN registry) \ {{}} :
          todo' = SelectSeq(SortedNames(DOMAIN registry), LAMBDA n : n \in ticked)
    /\ report' = EmptyMap
    /\ log' = <<>>
    /\ locals' = NoCall
    /\ spc' = "loop"
    /\ UNCHANGED <<registry, autoResolve, runs, lastRun, prevRun>>
    /\ UNCHANGED <<pluginVars, resolveVars, envVars, installVars, keyVars, selectVars, registryVars, raceVars, guiVars>>

\* setup_all, lines 95-96: the next item, resolve_conflicts(deps, auto_resolve);
\* deps is a set, iterated in an order the caller does not control
Resolve ==
    /\ spc = "loop" /\ entry = "setup_all" /\ todo # <<>>
    /\ \E input \in Enumerations(registry[Head(todo)]) :
       \E order \in Enumerations(AllPinned(input)) :
          LET result == resolve_conflicts(input, autoResolve, order)
          IN /\ locals' = [status |-> "running", name |-> Head(todo),
                           packages |-> result.resolved,
                           conflicts |-> result.conflicts, env_path |-> NoCall]
             /\ log' = Append(log, [step |-> "resolve", name |-> Head(todo),
                                    input |-> input, order |-> order])
    /\ todo' = Tail(todo)
    /\ spc' = "create"
    /\ UNCHANGED <<registry, autoResolve, entry, report, runs, lastRun, prevRun>>
    /\ UNCHANGED <<pluginVars, resolveVars, envVars, installVars, keyVars, selectVars, registryVars, raceVars, guiVars>>

\* cli line 26, gui line 167: the next plugin of the loop
TakePlugin ==
    /\ spc = "loop" /\ entry \in {"cli", "gui"} /\ todo # <<>>
    /\ locals' = [status |-> "running", name |-> Head(todo), packages |-> <<>>,
                  conflicts |-> EmptyMap, env_path |-> NoCall]
    /\ todo' = Tail(todo)
    /\ spc' = "create"
    /\ UNCHANGED <<registry, autoResolve, entry, report, log, runs, lastRun, prevRun>>
    /\ UNCHANGED <<pluginVars, resolveVars, envVars, installVars, keyVars, selectVars, registryVars, raceVars, guiVars>>

\* env.create_env(name): setup_all line 97, cli line 27, gui line 168
CallCreateEnv ==
    /\ spc = "create" /\ epc = "idle"
    /\ call' = [status |-> "running", name |-> locals.name, arg |-> None,
                env_path |-> EnvPath(locals.name),
                backend |-> SelectBackend(None, envVar, condaOnPath),
                tool |-> "none",
                existed |-> FALSE, created |-> FALSE, file |-> NoRecord,
                data |-> JsonObject(EmptyMap)]
    /\ epc' = "check"
    /\ log' = Append(log, [step |-> "create_env", name |-> locals.name,
                           created |-> FALSE])
    /\ spc' = "creating"
    /\ UNCHANGED <<envVar, condaOnPath, envDirs, record, loaded, lastCall, prevCall>>
    /\ UNCHANGED <<registry, autoResolve, entry, todo, locals, report, runs, lastRun,
                   prevRun>>
    /\ UNCHANGED <<pluginVars, resolveVars, installVars, keyVars, selectVars, registryVars, raceVars, guiVars>>

\* create_env returned env_path
CreateEnvReturned ==
    /\ spc = "creating" /\ epc = "idle" /\ lastCall.status = "returned"
    /\ locals' = [locals EXCEPT !.env_path = lastCall.location]
    /\ log' = [log EXCEPT ![Len(log)].created = lastCall.created]
    /\ spc' = "install"
    /\ UNCHANGED <<registry, autoResolve, entry, todo, report, runs, lastRun, prevRun>>
    /\ UNCHANGED <<pluginVars, resolveVars, envVars, installVars, keyVars, selectVars, registryVars, raceVars, guiVars>>

\* create_env raised: no install path catches it per plugin; setup_all and
\* install_all let it go to their caller, _run_install hands it to _install_complete
CreateEnvRaised ==
    /\ spc = "creating" /\ epc = "idle" /\ lastCall.status = "raised"
    /\ UNCHANGED <<report, log>>
    /\ EndOfRun("raised", [type |-> lastCall.error, plugin |-> locals.name])
    /\ UNCHANGED <<registry, autoResolve, entry>>
    /\ UNCHANGED <<pluginVars, resolveVars, envVars, installVars, keyVars, selectVars, registryVars, raceVars, guiVars>>

\* the packages argument of install_packages: setup_all line 98 passes the
\* resolved list, cli line 28 sorted(deps), gui lines 169-170 the set deps itself,
\* which list(packages) enumerates
InstallArguments(path, resolved, requested) ==
    IF path = "setup_all" THEN {resolved}
    ELSE IF path = "cli" THEN {Sorted(requested)}
    ELSE Enumerations(requested)

\* env.install_packages(env_path, packages)
CallInstall ==
    /\ spc = "install" /\ ipc = "idle"
    /\ \E packages \in InstallArguments(entry, locals.packages, registry[locals.name]) :
          /\ icall' = [status |-> "running", env_path |-> locals.env_path,
                       packages |-> packages]
          /\ log' = Append(log, [step |-> "install_packages", name |-> locals.name,
                                 env_path |-> locals.env_path, packages |-> packages])
    /\ invocations' = <<>>
    /\ ipc' = "called"
    /\ spc' = "installing"
    /\ UNCHANGED <<osName, ilast>>
    /\ UNCHANGED <<registry, autoResolve, entry, todo, locals, report, runs, lastRun,
                   prevRun>>
    /\ UNCHANGED <<pluginVars, resolveVars, envVars, keyVars, selectVars, registryVars, raceVars, guiVars>>

\* report[name] = {"env_path": ..., "packages": ..., "conflicts": ...}
ReportWith(rep, name, env_path, packages, conflicts) ==
    [k \in DOMAIN rep \cup {name} |->
        IF k = name
        THEN [env_path |-> env_path, packages |-> packages, conflicts |-> conflicts]
        ELSE rep[k]]

\* install_packages returned: setup_all lines 99-103 fill the report entry, the
\* CLI prints a line, the GUI steps the progress bar; then the loop goes on
InstallReturned ==
    /\ spc = "installing" /\ ipc = "idle" /\ ilast.status = "returned"
    /\ IF entry = "setup_all"
       THEN /\ report' = ReportWith(report, locals.name, locals.env_path,
                                    locals.packages, locals.conflicts)
            /\ log' = Append(log, [step |-> "report", name |-> locals.name])
       ELSE UNCHANGED <<report, log>>
    /\ spc' = "loop"
    /\ UNCHANGED <<registry, autoResolve, entry, todo, locals, runs, lastRun, prevRun>>
    /\ UNCHANGED <<pluginVars, resolveVars, envVars, installVars, keyVars, selectVars, registryVars, raceVars, guiVars>>

\* install_packages raised CalledProcessError: setup_all (line 98) and install_all
\* (line 28) have no handler, the loop is left and the caller gets the exception;
\* _run_install hands it to _install_complete
InstallRaised ==
    /\ spc = "installing" /\ ipc = "idle" /\ ilast.status = "raised"
    /\ UNCHANGED report
    /\ log' = Append(log, [step |-> "install_failed", name |-> locals.name])
    /\ EndOfRun("raised", [type |-> ilast.error.type, plugin |-> locals.name])
    /\ UNCHANGED <<registry, autoResolve, entry>>
    /\ UNCHANGED <<pluginVars, resolveVars, envVars, installVars, keyVars, selectVars, registryVars, raceVars, guiVars>>

\* the loop is over: setup_all returns the report (line 104), install_all
\* returns, _run_install schedules _install_complete(None)
LoopEnds ==
    /\ spc = "loop" /\ todo = <<>>
    /\ UNCHANGED <<report, log>>
    /\ EndOfRun("returned", NoCall)
    /\ UNCHANGED <<registry, autoResolve, entry>>
    /\ UNCHANGED <<pluginVars, resolveVars, envVars, installVars, keyVars, selectVars, registryVars, raceVars, guiVars>>

CreateEnvSteps ==
    \/ ExistsCheck
    \/ CreationSucceeds
    \/ CreationFails
    \/ ReadRecord
    \/ WriteRecordAndReturn

NextSetup ==
    \/ SetupAllCall
    \/ Resolve
    \/ CallCreateEnv
    \/ CreateEnvSteps
    \/ CreateEnvReturned
    \/ CreateEnvRaised
    \/ CallInstall
    \/ InstallSteps
    \/ InstallReturned
    \/ InstallRaised
    \/ LoopEnds

\* runs of setup_all, one after the other
SpecSetup == InitSetup /\ [][NextSetup]_vars

NextPaths ==
    \/ NextSetup
    \/ CliInstallAll
    \/ GuiRunInstall
    \/ TakePlugin

\* runs of the three install paths, one after the other, in any mix
SpecPaths == InitSetup /\ [][NextPaths]_vars

(***************************************************************************)
(* Properties of the install paths                                         *)
(***************************************************************************)

\* the steps of a run that belong to the k-th plugin it took (k from 0), when
\* every plugin takes `width` steps
StepOf(run, k, width, i) == run.log[width * k + i]

\* what resolve_conflicts gives for the input of a logged resolve step
ResolverOutput(step) == resolve_conflicts(step.input, autoResolve, step.order)

Range(seq) == {seq[i] : i \in 1..Len(seq)}

\* C13 (read when a run has just ended, which is when lastRun changes):
\* a setup_all run in which no step failed took the plugins of the
\* registry in ascending name order and, for each, resolved its raw
\* dependencies, then called create_env with the plugin's name, then
\* install_packages with the returned location and exactly the resolved
\* packages, then filled report[plugin]; the report's keys are the registry's
\* plugins and each entry holds the location, and the packages and conflicts
\* the resolver gave for that plugin.
C13_SetupAllOrderAndReport ==
    (spc = "idle" /\ lastRun.status = "returned" /\ lastRun.entry = "setup_all")
        => LET n == Cardinality(DOMAIN registry)
           IN /\ Len(lastRun.log) = 4 * n
              /\ DOMAIN lastRun.report = DOMAIN registry
              /\ \A k \in 0..(n - 1) :
                    LET res == StepOf(lastRun, k, 4, 1)
                        cre == StepOf(lastRun, k, 4, 2)
                        ins == StepOf(lastRun, k, 4, 3)
                        rep == StepOf(lastRun, k, 4, 4)
                    IN /\ res.step = "resolve" /\ cre.step = "create_env"
                       /\ ins.step = "install_packages" /\ rep.step = "report"
                       /\ res.name \in DOMAIN registry
                       /\ cre.name = res.name /\ ins.name = res.name /\ rep.name = res.name
                       /\ Range(res.input) = registry[res.name]
                       /\ Len(res.input) = Cardinality(registry[res.name])
                       /\ ins.env_path = EnvPath(res.name)
                       /\ ins.packages = ResolverOutput(res).resolved
                       /\ lastRun.report[res.name] =
                             [env_path |-> EnvPath(res.name),
                              packages |-> ResolverOutput(res).resolved,
                              conflicts |-> ResolverOutput(res).conflicts]
                       /\ (k > 0 => SeqLess(NameText(StepOf(lastRun, k - 1, 4, 1).name),
                                            NameText(res.name)))

\* a run over two plugins that returned: "a" declared conflicting pins, for
\* which the highest was installed, and "b" two packages
C13_Witness ==
    /\ lastRun.status = "returned" /\ lastRun.entry = "setup_all"
    /\ DOMAIN lastRun.report = {"a", "b"}
    /\ Len(lastRun.log) = 8
    /\ lastRun.log[1].name = "a" /\ lastRun.log[5].name = "b"
    /\ DOMAIN lastRun.report["a"].conflicts = {PKG}
    /\ lastRun.report["a"].packages = <<Text(PKG, <<Sp("==", <<10>>)>>)>>
    /\ Len(lastRun.report["b"].packages) = 2
    /\ lastRun.log[7].packages = lastRun.report["b"].packages

\* the plugins whose install_packages call failed in a run
FailedInstalls(run) ==
    {run.log[i].name : i \in {j \in 1..Len(run.log) : run.log[j].step = "install_failed"}}

\* the plugins for which a run made a step of the given kind
PluginsWithStep(run, step) ==
    {run.log[i].name : i \in {j \in 1..Len(run.log) : run.log[j].step = step}}

\* C14: a setup_all run in which install_packages failed for a plugin still
\* returns a report; the report has an entry for every plugin of the
\* registry, the failed one included, and every plugin later in name order
\* was resolved, given its environment and installed.
C14_InstallFailureIsolated ==
    (/\ lastRun.status # "none" /\ lastRun.entry = "setup_all"
     /\ FailedInstalls(lastRun) # {})
        => /\ lastRun.status = "returned"
           /\ DOMAIN lastRun.report = DOMAIN registry
           /\ \A failed \in FailedInstalls(lastRun) :
              \A later \in DOMAIN registry :
                 SeqLess(NameText(failed), NameText(later))
                    => /\ later \in PluginsWithStep(lastRun, "resolve")
                       /\ later \in PluginsWithStep(lastRun, "create_env")
                       /\ later \in PluginsWithStep(lastRun, "install_packages")

(***************************************************************************)
(* Properties of install_packages                                          *)
(***************************************************************************)

\* an install_packages call has ended and no other has begun
InstallEnded == ipc = "idle" /\ ilast.status # "none"

C16_OneInvocationWithAllPackages ==
    InstallEnded
        => IF Len(ilast.packages) = 0
           THEN invocations = <<>> /\ ilast.status = "returned"
           ELSE /\ Len(invocations) = 1
                /\ invocations[1].program.env = ilast.env_path
                /\ invocations[1].program.dir = (IF osName = "nt" THEN "Scripts" ELSE "bin")
                /\ invocations[1].program.file = "python"
                /\ invocations[1].options = <<"-m", "pip", "install">>
                /\ invocations[1].packages = ilast.packages

\* "lib==2" and "pkg==10" were installed into environment "a" by one pip process
C16_Witness ==
    /\ InstallEnded /\ ilast.status = "returned"
    /\ ilast.env_path = EnvPath("a")
    /\ ilast.packages = <<Text(LIB, <<Sp("==", <<2>>)>>), Text(PKG, <<Sp("==", <<10>>)>>)>>
    /\ Len(invocations) = 1
    /\ invocations[1].packages = ilast.packages
    /\ invocations[1].program.env.name = "a"

\* every package list resolve_conflicts can give for a dependency set, under
\* the given values of auto_resolve
ResolverOutputs(requested, flags) ==
    UNION {{resolve_conflicts(input, flag, order).resolved :
               flag \in flags, order \in Enumerations(AllPinned(input))} :
           input \in Enumerations(requested)}

\* the auto_resolve values a path can be compared under: setup_all has its
\* argument, the CLI and the GUI have none
FlagsOf(path) == IF path = "setup_all" THEN {autoResolve} ELSE BOOLEAN

\* C17: on every install path (setup_all, the CLI's install_all, the GUI's
\* install worker) each install_packages call is given the environment named
\* after the plugin and a package list that is the resolver's output for the
\* plugin's declared dependencies, so that the CLI and the GUI install what
\* setup_all installs for the same registry.
C17_AllPathsInstallResolved ==
    \A i \in 1..Len(log) :
        log[i].step = "install_packages"
            => /\ log[i].env_path = EnvPath(log[i].name)
               /\ log[i].packages \in ResolverOutputs(registry[log[i].name], FlagsOf(entry))

\* the package list a run passed to install_packages for a plugin
InstalledFor(run, name) ==
    {run.log[i].packages :
        i \in {j \in 1..Len(run.log) : /\ run.log[j].step = "install_packages"
                                       /\ run.log[j].name = name}}

\* the plugins whose environment a run built
CreatedIn(run) ==
    {run.log[i].name :
        i \in {j \in 1..Len(run.log) : /\ run.log[j].step = "create_env"
                                       /\ run.log[j].created}}

\* C18: when a setup_all run has returned and setup_all is run again over the
\* same registry, from the state the first run left and with no pip process
\* failing, the second run returns, builds no environment, passes for each
\* plugin the package list the first run passed, and its report equals the
\* first run's report.
C18_SecondRunRepeatsFirst ==
    (/\ prevRun.status = "returned" /\ prevRun.entry = "setup_all"
     /\ lastRun.status # "none" /\ lastRun.entry = "setup_all"
     /\ FailedInstalls(lastRun) = {})
        => /\ lastRun.status = "returned"
           /\ CreatedIn(lastRun) = {}
           /\ \A name \in DOMAIN registry :
                 InstalledFor(lastRun, name) = InstalledFor(prevRun, name)
           /\ lastRun.report = prevRun.report

\* the characters of "0", "false" and "no"
Zero == <<48>>
False == <<102, 97, 108, 115, 101>>
No == <<110, 111>>

\* the backend the precedence rule gives: the argument, else the variable,
\* else the look-up of conda on the path
BackendByPrecedence(argument) ==
    IF argument # None THEN argument
    ELSE IF envVar.set
         THEN (IF Lower(envVar.value) \in {Zero, False, No} THEN "venv" ELSE "conda")
         ELSE (IF condaOnPath THEN "conda" ELSE "venv")

Username == "api_key"

\* the keys of the model, as code points: "k", "k9" and a key with the
\* two-byte character U+20AC
KeyValues == {<<107>>, <<107, 57>>, <<8364, 107>>}

\* key.encode("utf-16-le"): two bytes per character of the basic plane, low first
RECURSIVE EncodeUtf16le(_)
EncodeUtf16le(str) ==
    IF Len(str) = 0 THEN <<>>
    ELSE <<Head(str) % 256, Head(str) \div 256>> \o EncodeUtf16le(Tail(str))

\* blob.decode("utf-16-le")
RECURSIVE DecodeUtf16le(_)
DecodeUtf16le(bytes) ==
    IF Len(bytes) < 2 THEN <<>>
    ELSE <<bytes[1] + 256 * bytes[2]>> \o DecodeUtf16le(SubSeq(bytes, 3, Len(bytes)))

\* Fernet.generate_key(), and the token Fernet(key).encrypt(data) gives
GeneratedKey == "generated"
FernetEncrypt(key, data) == [key |-> key, data |-> data]
\* Fernet(key).decrypt(token): the data, or InvalidToken under another key
FernetDecrypt(key, token) ==
    IF token.key = key THEN [raised |-> FALSE, data |-> token.data] ELSE [raised |-> TRUE]

\* json.dumps(store).encode("utf-8") and its inverse, bytes.decode then json.loads
DumpStore(store) == [encoding |-> "utf-8", text |-> JsonObject(store)]
LoadStore(data) == data.text.items

\* A faulty _load_fernet that writes a key file before it looks for Fernet.
GenerateKeyRegardless(availability, file) ==
    IF file.exists THEN file ELSE [exists |-> TRUE, key |-> GeneratedKey]

\* _load_fernet(): None without the cryptography package; otherwise the key of
\* the key file, which is generated and written when the file is missing
KeyFileAfterLoad(availability, file) ==
    IF ~availability.fernet THEN file
    ELSE IF file.exists THEN file
    ELSE [exists |-> TRUE, key |-> GeneratedKey]

\* _load_file_store(): {} without Fernet, without the file, or when the token
\* does not decrypt
load_file_store(availability, kfile, efile) ==
    IF ~availability.fernet \/ ~efile.exists THEN EmptyMap
    ELSE IF FernetDecrypt(KeyFileAfterLoad(availability, kfile).key, efile.token).raised
         THEN EmptyMap
         ELSE LoadStore(FernetDecrypt(KeyFileAfterLoad(availability, kfile).key,
                                      efile.token).data)

\* A faulty delete_key that always goes to the encrypted file.
DeleteInFile(op, availability) ==
    IF op = "delete" THEN "file"
    ELSE IF availability.win32cred THEN "win32cred"
    ELSE IF availability.keyring THEN "keyring"
    ELSE "file"

\* the backend each function addresses: `IS_WINDOWS and win32cred is not None`,
\* then `keyring is not None`, then the encrypted file, the same tests in
\* load_key, save_key and delete_key
BackendOf(op, availability) ==
    IF availability.win32cred THEN "win32cred"
    ELSE IF availability.keyring THEN "keyring"
    ELSE "file"

MapWith(map, k, v) == [x \in DOMAIN map \cup {k} |-> IF x = k THEN v ELSE map[x]]
MapWithout(map, k) == [x \in DOMAIN map \ {k} |-> map[x]]

Availabilities == [win32cred : BOOLEAN, keyring : BOOLEAN, fernet : BOOLEAN]

InitKeys ==
    /\ PluginsIdle
    /\ ResolveIdle
    /\ EnvIdle
    /\ InstallIdle
    /\ SetupIdle
    /\ SelectIdle
    /\ RegistryIdle
    /\ RaceIdle
    /\ GuiIdle
    /\ avail \in Availabilities
    /\ credStore = EmptyMap /\ ring = EmptyMap
    /\ keyFile = NoFile /\ encFile = NoFile
    /\ kres = [op |-> "none"]
    /\ saved = [s \in Services |-> NoKey]

\* save_key(service, key)
SaveKey ==
    \E service \in Services, key \in KeyValues :
       LET backend == BackendOf("save", avail)
       IN /\ IF backend = "win32cred"
             THEN /\ credStore' = MapWith(credStore, service,
                                          [UserName |-> Username,
                                           CredentialBlob |-> EncodeUtf16le(key)])
                  /\ UNCHANGED <<ring, keyFile, encFile>>
                  /\ kres' = [op |-> "save", service |-> service, backend |-> backend,
                              status |-> "returned"]
                  /\ saved' = [saved EXCEPT ![service] = [present |-> TRUE, key |-> key]]
             ELSE IF backend = "keyring"
             THEN /\ ring' = MapWith(ring, <<service, Username>>, key)
                  /\ UNCHANGED <<credStore, keyFile, encFile>>
                  /\ kres' = [op |-> "save", service |-> service, backend |-> backend,
                              status |-> "returned"]
                  /\ saved' = [saved EXCEPT ![service] = [present |-> TRUE, key |-> key]]
             ELSE IF avail.fernet
             THEN /\ keyFile' = KeyFileAfterLoad(avail, keyFile)
                  /\ encFile' = [exists |-> TRUE,
                                 token |-> FernetEncrypt(keyFile'.key,
                                              DumpStore(MapWith(
                                                 load_file_store(avail, keyFile, encFile),
                                                 service, key)))]
                  /\ UNCHANGED <<credStore, ring>>
                  /\ kres' = [op |-> "save", service |-> service, backend |-> backend,
                              status |-> "returned"]
                  /\ saved' = [saved EXCEPT ![service] = [present |-> TRUE, key |-> key]]
             ELSE \* _save_file_store: RuntimeError("Encryption backend not available")
                  /\ UNCHANGED <<credStore, ring, keyFile, encFile, saved>>
                  /\ kres' = [op |-> "save", service |-> service, backend |-> backend,
                              status |-> "raised", error |-> "RuntimeError"]
          /\ UNCHANGED avail
          /\ UNCHANGED <<pluginVars, resolveVars, envVars, installVars, setupVars, selectVars, registryVars, raceVars, guiVars>>

\* the value a Python call gave: a str or None
Str(value) == [present |-> TRUE, key |-> value]

\* load_key(service)
LoadKey ==
    \E service \in Services :
       LET backend == BackendOf("load", avail)
           store == load_file_store(avail, keyFile, encFile)
       IN /\ kres' = [op |-> "load", service |-> service, backend |-> backend,
                      status |-> "returned",
                      result |->
                         IF backend = "win32cred"
                         THEN (IF service \in DOMAIN credStore
                               THEN Str(DecodeUtf16le(credStore[service].CredentialBlob))
                               ELSE NoKey)
                         ELSE IF backend = "keyring"
                         THEN (IF <<service, Username>> \in DOMAIN ring
                               THEN Str(ring[<<service, Username>>]) ELSE NoKey)
                         ELSE (IF service \in DOMAIN store THEN Str(store[service])
                               ELSE NoKey)]
          /\ keyFile' = IF backend = "file" THEN KeyFileAfterLoad(avail, keyFile) ELSE keyFile
          /\ UNCHANGED <<avail, credStore, ring, encFile, saved>>
          /\ UNCHANGED <<pluginVars, resolveVars, envVars, installVars, setupVars, selectVars, registryVars, raceVars, guiVars>>

\* delete_key(service)
DeleteKey ==
    \E service \in Services :
       LET backend == BackendOf("delete", avail)
           store == load_file_store(avail, keyFile, encFile)
           existed == IF backend = "win32cred" THEN service \in DOMAIN credStore
                      ELSE IF backend = "keyring" THEN <<service, Username>> \in DOMAIN ring
                      ELSE service \in DOMAIN store
       IN /\ kres' = [op |-> "delete", service |-> service, backend |-> backend,
                      status |-> "returned", result |-> existed,
                      stored |-> saved[service].present]
          /\ credStore' = IF backend = "win32cred" THEN MapWithout(credStore, service)
                          ELSE credStore
          /\ ring' = IF backend = "keyring" THEN MapWithout(ring, <<service, Username>>)
                     ELSE ring
          /\ keyFile' = IF backend = "file" THEN KeyFileAfterLoad(avail, keyFile) ELSE keyFile
          /\ encFile' = IF backend = "file" /\ existed
                        THEN [exists |-> TRUE,
                              token |-> FernetEncrypt(keyFile'.key,
                                                      DumpStore(MapWithout(store, service)))]
                        ELSE encFile
          /\ saved' = [saved EXCEPT ![service] = NoKey]
          /\ UNCHANGED avail
          /\ UNCHANGED <<pluginVars, resolveVars, envVars, installVars, setupVars, selectVars, registryVars, raceVars, guiVars>>

NextKeys ==
    \/ SaveKey
    \/ LoadKey
    \/ DeleteKey

SpecKeys == InitKeys /\ [][NextKeys]_vars

(***************************************************************************)
(* Properties of the API key store                                         *)
(***************************************************************************)

\* at least one credential backend is usable
SomeBackendUsable == avail.win32cred \/ avail.keyring \/ avail.fernet

\* the backend preferred under the availability: the OS credential manager,
\* else the keyring, else the encrypted file
PreferredBackend ==
    CASE avail.win32cred -> "win32cred"
      [] ~avail.win32cred /\ avail.keyring -> "keyring"
      [] OTHER -> "file"

\* C20: with at least one backend usable the store is a map over every
\* sequence of operations: no operation fails, load_key(s) returns the key of
\* the last save_key(s, k) not followed by a delete_key(s), and None when
\* there is none; delete_key(s) of a stored key returns True; and all three
\* operations address the one preferred backend.
C20_StoreBehavesAsMap ==
    (SomeBackendUsable /\ kres.op \in {"save", "load", "delete"})
        => /\ kres.status = "returned"
           /\ kres.backend = PreferredBackend
           /\ (kres.op = "load" => kres.result = saved[kres.service])
           /\ (kres.op = "delete" /\ kres.stored => kres.result = TRUE)
           /\ (kres.op = "delete" => ~saved[kres.service].present)

\* with only Fernet available, load_key("s") returned the key saved last for
\* "s", which holds a two-byte character, while no key is stored for "t"
C20_Witness ==
    /\ avail = [win32cred |-> FALSE, keyring |-> FALSE, fernet |-> TRUE]
    /\ kres.op = "load" /\ kres.service = "s" /\ kres.backend = "file"
    /\ kres.result = [present |-> TRUE, key |-> <<8364, 107>>]
    /\ ~saved["t"].present
    /\ encFile.exists /\ keyFile.exists

\* C21: with no credential backend usable (no credential manager, no keyring,
\* no Fernet) save_key raises RuntimeError, load_key returns None without
\* raising, and nothing is stored: no credential, no password, no key file
\* and no encrypted file.
C21_NoBackend ==
    ~SomeBackendUsable
        => /\ (kres.op = "save" => kres.status = "raised" /\ kres.error = "RuntimeError")
           /\ (kres.op = "load" => kres.status = "returned" /\ kres.result = NoKey)
           /\ credStore = EmptyMap /\ ring = EmptyMap
           /\ keyFile = NoFile /\ encFile = NoFile
           /\ \A s \in Services : ~saved[s].present

\* without any backend save_key("t", ...) has just raised RuntimeError
C21_Witness ==
    /\ ~SomeBackendUsable
    /\ kres.op = "save" /\ kres.service = "t"
    /\ kres.status = "raised" /\ kres.error = "RuntimeError"
    /\ encFile = NoFile

(***************************************************************************)
(* Backend selection (installer/model_selector.py).  Python values are     *)
(* records carrying their type, dictionaries are functions on the keys     *)
(* they hold.                                                              *)
(***************************************************************************)
\* largest number of gigabytes a requirement or a detected size takes
MaxGb == 2

PyNone == [type |-> "NoneType"]

PyBool(b) == [type |-> "bool", flag |-> b]

PyNumber(n) == [type |-> "number", n |-> n]

PyStr(text) == [type |-> "str", text |-> text]

\* bool(x) as an if statement evaluates it
Truth(x) ==
    CASE x.type = "NoneType" -> FALSE
      [] x.type = "bool" -> x.flag
      [] x.type = "number" -> x.n # 0
      [] x.type = "str" -> x.text # ""

\* dict.get(key): the value, or None for a key the dictionary lacks
Get(d, key) == IF key \in DOMAIN d THEN d[key] ELSE PyNone

\* A faulty meets that lets an unknown value pass.
MeetsUnknown(value, requirement) ==
    IF requirement = PyNone THEN TRUE
    ELSE IF value = PyNone THEN TRUE
    ELSE value.n >= requirement.n

\* the helper meets(value, requirement) of select_backend
meets(value, requirement) ==
    IF requirement = PyNone THEN TRUE
    ELSE IF value = PyNone THEN FALSE
    ELSE value.n >= requirement.n

\* select_backend(task, specs) with info the result of detect_system(); the
\* task argument is not read
select_backend(sp, inf) ==
    IF Truth(Get(sp, "requires_gpu")) /\ ~Truth(Get(inf, "gpu_name")) THEN "remote"
    ELSE IF ~meets(Get(inf, "gpu_vram_gb"), Get(sp, "min_vram_gb")) THEN "remote"
    ELSE IF ~meets(Get(inf, "ram_total_gb"), Get(sp, "min_ram_gb")) THEN "remote"
    ELSE "local"

Gigabytes == {PyNumber(n) : n \in 0..MaxGb}

\* the dictionaries on any subset of the keys with values in the set
Dicts(keys, values) == UNION {[K -> values] : K \in SUBSET keys}

\* specs dictionaries: each key is optional, a flag or None for requires_gpu,
\* a number or None for the two minima
SpecDicts ==
    {d \in Dicts({"requires_gpu", "min_vram_gb", "min_ram_gb"},
                 {PyNone, PyBool(TRUE), PyBool(FALSE)} \cup Gigabytes) :
        /\ "requires_gpu" \in DOMAIN d => d["requires_gpu"] \notin Gigabytes
        /\ \A k \in {"min_vram_gb", "min_ram_gb"} \cap DOMAIN d :
               d[k] \in {PyNone} \cup Gigabytes}

\* what detect_system() returns: the three keys are always present, each None
\* until a probe fills it; a probe may yield the empty name
DetectedSystems ==
    {[gpu_name |-> g, gpu_vram_gb |-> v, ram_total_gb |-> r] :
        g \in {PyNone, PyStr(""), PyStr("RTX")},
        v \in {PyNone} \cup Gigabytes,
        r \in {PyNone} \cup Gigabytes}

InitSelect ==
    /\ PluginsIdle
    /\ ResolveIdle
    /\ EnvIdle
    /\ InstallIdle
    /\ SetupIdle
    /\ KeysIdle
    /\ RegistryIdle
    /\ RaceIdle
    /\ GuiIdle
    /\ taskSpecs \in SpecDicts
    /\ info \in DetectedSystems
    /\ choice = "init"

SelectBackendCall ==
    /\ choice = "init"
    /\ choice' = select_backend(taskSpecs, info)
    /\ UNCHANGED <<taskSpecs, info>>
    /\ UNCHANGED <<pluginVars, resolveVars, envVars, installVars, setupVars, keyVars, registryVars, raceVars, guiVars>>

NextSelect == SelectBackendCall

SpecSelect == InitSelect /\ [][NextSelect]_vars

\* the requirement is absent: the key is missing or holds None
AbsentIn(d, key) == key \notin DOMAIN d \/ d[key] = PyNone

\* a GPU was detected: gpu_name holds a name
GpuDetected == info["gpu_name"].type = "str" /\ info["gpu_name"].text # ""

\* requires_gpu is set: the key is present and holds True
GpuRequired == "requires_gpu" \in DOMAIN taskSpecs /\ taskSpecs["requires_gpu"] = PyBool(TRUE)

\* the minimum is absent, or the detected size is known and at least the minimum
MinimumMet(minimum, detected) ==
    \/ AbsentIn(taskSpecs, minimum)
    \/ /\ info[detected] # PyNone
       /\ info[detected].n >= taskSpecs[minimum].n

\* C22: select_backend returns "local" exactly when requires_gpu is not set or
\* a GPU name was detected, min_vram_gb is absent or the detected VRAM is known
\* and at least min_vram_gb, and min_ram_gb is absent or the detected RAM is
\* known and at least min_ram_gb; in every other case it returns "remote".
C22_LocalExactlyWhenAllMet ==
    choice # "init" =>
        LET all == /\ (~GpuRequired \/ GpuDetected)
                   /\ MinimumMet("min_vram_gb", "gpu_vram_gb")
                   /\ MinimumMet("min_ram_gb", "ram_total_gb")
        IN  /\ choice = "local" <=> all
            /\ choice # "local" => choice = "remote"

\* "local" returned with a GPU required and both minima present and met
C22_Witness ==
    /\ choice = "local"
    /\ GpuRequired
    /\ ~AbsentIn(taskSpecs, "min_vram_gb") /\ taskSpecs["min_vram_gb"].n > 0
    /\ ~AbsentIn(taskSpecs, "min_ram_gb") /\ taskSpecs["min_ram_gb"].n > 0

(***************************************************************************)
(* The registry beyond discovery (installer/plugins.py): plugin bodies     *)
(* also register UI components, and the caller of discover_plugins may     *)
(* call add_dependency on the returned registry with no plugin active.     *)
(***************************************************************************)
\* Bounds of the calls made beyond add_dependency in plugin bodies.
MaxUiCalls == 1
MaxHostCalls == 1

UiNames == {"panel"}
Components == {"c1"}

\* self.ui_components[name] = component
register_ui_component(u, name, component) ==
    [k \in DOMAIN u \cup {name} |-> IF k = name THEN component ELSE u[k]]

\* the body of plugin.register(registry) / plugin(registry) calls
\* register_ui_component
PluginRegistersUi ==
    /\ dpc = "try"
    /\ HasRegister(Units[idx]) \/ IsCallable(Units[idx])
    /\ uiCalls < MaxUiCalls
    /\ \E n \in UiNames, c \in Components : ui' = register_ui_component(ui, n, c)
    /\ uiCalls' = uiCalls + 1
    /\ UNCHANGED <<pluginVars, hostCalls>>
    /\ UNCHANGED <<resolveVars, envVars, installVars, setupVars, keyVars, selectVars, raceVars, guiVars>>

\* the declarations made with no plugin active, as a unit of their own
HostUnit == <<"host", 0>>

\* the caller of discover_plugins calls add_dependency on the registry it got
HostAddsDependency ==
    /\ dpc = "returned"
    /\ hostCalls < MaxHostCalls
    /\ \E r \in PluginReqs :
        /\ deps' = add_dependency(deps, cur, r)
        /\ declared' = SetDefaultAdd(declared, HostUnit, r)
    /\ hostCalls' = hostCalls + 1
    /\ UNCHANGED <<eps, files, phase, idx, dpc, cur, exc, ncalls, processed, outcome>>
    /\ UNCHANGED <<ui, uiCalls>>
    /\ UNCHANGED <<resolveVars, envVars, installVars, setupVars, keyVars, selectVars, raceVars, guiVars>>

NextRegistry ==
    \/ NextPlugins
    \/ PluginRegistersUi
    \/ HostAddsDependency

\* Entry points come in every kind; the directory scripts all load and expose
\* register, the shape the docstring of discover_plugins expects.
InitRegistry ==
    /\ InitPlugins
    /\ \A i \in 1..Len(files) : files[i].kind = "register"

SpecRegistry == InitRegistry /\ [][NextRegistry]_vars

\* a step in which add_dependency is called, in a plugin body or outside
AddDependencyStep == ncalls' = ncalls + 1 \/ hostCalls' = hostCalls + 1

\* C23: an add_dependency call adds the requirement to the set of exactly one
\* key, the active plugin identifier or "global" when no plugin is active,
\* and leaves every other key's set, ui_components and the active-plugin
\* marker unchanged.
C23_AddDependencyFrame ==
    [][AddDependencyStep =>
        LET key == IF cur = None THEN GLOBAL ELSE cur
            before == IF key \in DOMAIN deps THEN deps[key] ELSE {}
        IN  /\ DOMAIN deps' = DOMAIN deps \cup {key}
            /\ \E r \in PluginReqs : deps'[key] = before \cup {r}
            /\ \A k \in DOMAIN deps \ {key} : deps'[k] = deps[k]
            /\ ui' = ui
            /\ cur' = cur]_vars

\* the registry holds a UI component, the set of a plugin and the set of
\* "global", the latter filled by a call made with no plugin active
C23_Witness ==
    /\ hostCalls > 0 /\ cur = None
    /\ GLOBAL \in DOMAIN deps
    /\ \E k \in DOMAIN deps : k # GLOBAL
    /\ ui # EmptyMap

(***************************************************************************)
(* Two processes in create_env (installer/env.py).  Each process runs one  *)
(* call, for a name of its own; the environment directories and the record *)
(* file are shared, every file operation is one step.                      *)
(***************************************************************************)
\* the name each process passes to create_env
ProcName(p) == IF p = 1 THEN "a" ELSE "b"

\* the record files found at start: those of FoundRecords, an empty mapping
\* and a mapping that holds an entry written by an earlier run
StartRecords ==
    FoundRecords \cup {RecordFile(JsonObject(EmptyMap)),
                       RecordFile(JsonObject(RecordWith(EmptyMap, "b", EnvPath("b"))))}

InitRace ==
    /\ PluginsIdle
    /\ ResolveIdle
    /\ InstallIdle
    /\ SetupIdle
    /\ KeysIdle
    /\ SelectIdle
    /\ RegistryIdle
    /\ GuiIdle
    /\ envVar = Unset /\ condaOnPath = FALSE
    /\ envDirs = [n \in EnvNames |-> "absent"]
    /\ record \in StartRecords
    /\ epc = "off" /\ call = NoCall /\ lastCall = NoCall /\ prevCall = NoCall
    /\ loaded = NoCall
    /\ procs = [p \in Procs |-> [pc |-> "idle"]]
    /\ ended = 0

RaceFrame ==
    /\ UNCHANGED <<envVar, condaOnPath, loaded, epc, call, lastCall, prevCall>>
    /\ UNCHANGED <<pluginVars, resolveVars, installVars, setupVars, keyVars, selectVars,
                   registryVars, guiVars>>

\* process p enters create_env(name): lines 62-63
ProcCalls(p) ==
    /\ procs[p].pc = "idle"
    /\ procs' = [procs EXCEPT ![p] = [pc |-> "check", name |-> ProcName(p),
                                      env_path |-> EnvPath(ProcName(p)),
                                      after |-> ended,
                                      data |-> JsonObject(EmptyMap)]]
    /\ UNCHANGED <<envDirs, record, ended>>
    /\ RaceFrame

\* line 64: if not env_path.exists()
ProcExistsCheck(p) ==
    /\ procs[p].pc = "check"
    /\ procs' = [procs EXCEPT ![p].pc = IF NeedsCreation(envDirs, procs[p].name)
                                        THEN "create" ELSE "record_read"]
    /\ UNCHANGED <<envDirs, record, ended>>
    /\ RaceFrame

\* lines 65-68: the creation succeeds
ProcCreationSucceeds(p) ==
    /\ procs[p].pc = "create"
    /\ envDirs' = [envDirs EXCEPT ![procs[p].name] = "complete"]
    /\ procs' = [procs EXCEPT ![p].pc = "record_read"]
    /\ UNCHANGED <<record, ended>>
    /\ RaceFrame

\* lines 65-68: the creation raises; the directory may be left behind
ProcCreationFails(p) ==
    /\ procs[p].pc = "create"
    /\ \E left \in {envDirs[procs[p].name], "partial"} :
          envDirs' = [envDirs EXCEPT ![procs[p].name] = left]
    /\ procs' = [procs EXCEPT ![p].pc = "raised"]
    /\ ended' = ended + 1
    /\ UNCHANGED record
    /\ RaceFrame

\* _record_env_path, lines 37-43: read the record file
ProcReadsRecord(p) ==
    /\ procs[p].pc = "record_read"
    /\ procs' = [procs EXCEPT ![p].pc = "record_write", ![p].data = ReadForUpdate(record)]
    /\ UNCHANGED <<envDirs, record, ended>>
    /\ RaceFrame

\* _record_env_path, lines 44-45, then return env_path; line 44 raises
\* TypeError on a value that is not a dict
ProcWritesRecord(p) ==
    /\ procs[p].pc = "record_write"
    /\ IF AcceptsItemAssignment(procs[p].data)
       THEN /\ record' = RecordFile(JsonObject(RecordWith(procs[p].data.items,
                                                          procs[p].name, procs[p].env_path)))
            /\ procs' = [procs EXCEPT ![p].pc = "returned"]
       ELSE /\ procs' = [procs EXCEPT ![p].pc = "raised"]
            /\ UNCHANGED record
    /\ ended' = ended + 1
    /\ UNCHANGED envDirs
    /\ RaceFrame

NextRace ==
    \E p \in Procs :
        \/ ProcCalls(p)
        \/ ProcExistsCheck(p)
        \/ ProcCreationSucceeds(p)
        \/ ProcCreationFails(p)
        \/ ProcReadsRecord(p)
        \/ ProcWritesRecord(p)

SpecRace == InitRace /\ [][NextRace]_vars

BothReturned == \A p \in Procs : procs[p].pc = "returned"

\* the two calls did not overlap: one was entered after the other had ended
NonInterleaved == \E p \in Procs : procs[p].pc # "idle" /\ procs[p].after = 1

\* the record maps the name to the string form of its location
Recorded(name) ==
    /\ ReadableMapping(record)
    /\ name \in DOMAIN record.doc.items
    /\ record.doc.items[name] = PathText(EnvPath(name))

\* C24: the record update of create_env is a read followed by an overwrite.
\* When the calls of two processes for different names do not overlap and
\* both return, the record holds both names; when they overlap, the record
\* may end up without one of them (the state C24_Witness describes).
C24_SequentialCallsKeepBothNames ==
    (BothReturned /\ NonInterleaved) => \A p \in Procs : Recorded(ProcName(p))

\* lost update: both calls returned and the record lacks the name of process 1
C24_Witness ==
    /\ BothReturned
    /\ ReadableMapping(record)
    /\ ProcName(1) \notin DOMAIN record.doc.items
    /\ Recorded(ProcName(2))

(***************************************************************************)
(* Installer window (installer/gui.py): the interface thread runs the      *)
(* button command and the callbacks scheduled with root.after, the install *)
(* worker runs _run_install.  A handler of the interface thread, modal     *)
(* dialogs included, is one step: a modal dialog holds the input grab, so  *)
(* no button command starts while it is shown.                             *)
(***************************************************************************)
\* number of times the Install button is pressed with a box ticked
MaxClicks == 2

\* A faulty scheduler that runs the callback scheduled last first.
AfterInFront(queue, callback) == <<callback>> \o queue

\* root.after(0, callback) hands the callback to the interface thread, which
\* runs scheduled callbacks in the order they were scheduled
after(queue, callback) == Append(queue, callback)

\* A faulty install_selected that leaves the button as it was.
LeftAsItWas(state) == state

\* line 157: self.install_btn.config(state=tk.DISABLED)
StateAtStart(state) == "disabled"

\* a ttk button invokes its command only while it is not disabled
CommandInvoked(state) == state = "normal"

\* selected_plugins = [p for p, var in self.component_vars.items() if var.get()];
\* component_vars is filled in sorted order
SelectedPlugins(vars_) ==
    SelectSeq(SortedNames(DOMAIN vars_), LAMBDA n : vars_[n])

\* the window as __init__ leaves it: one ticked box per registry key
InitGui ==
    /\ PluginsIdle
    /\ ResolveIdle
    /\ EnvIdle
    /\ InstallIdle
    /\ SetupIdle
    /\ KeysIdle
    /\ SelectIdle
    /\ RegistryIdle
    /\ RaceIdle
    /\ window = "open"
    /\ \E keys \in SUBSET EnvNames : boxes = [n \in keys |-> TRUE]
    /\ button = "normal"
    /\ progress = [value |-> 0, maximum |-> 100]
    /\ workers = <<>>
    /\ afterQueue = <<>>
    /\ delivered = <<>>
    /\ dialog = None

GuiFrame ==
    UNCHANGED <<pluginVars, resolveVars, envVars, installVars, setupVars, keyVars,
                selectVars, registryVars, raceVars>>

\* the user ticks or unticks a box
ToggleBox ==
    /\ window = "open"
    /\ \E n \in DOMAIN boxes : boxes' = [boxes EXCEPT ![n] = ~boxes[n]]
    /\ UNCHANGED <<window, button, progress, workers, afterQueue, delivered, dialog>>
    /\ GuiFrame

\* install_selected, lines 133-136: nothing is ticked
InstallNothingSelected ==
    /\ window = "open"
    /\ CommandInvoked(button)
    /\ SelectedPlugins(boxes) = <<>>
    /\ dialog' = "No components selected"
    /\ UNCHANGED <<window, boxes, button, progress, workers, afterQueue, delivered>>
    /\ GuiFrame

\* install_selected, lines 138-161: the key prompt is left blank, or a key is
\* entered and save_key raises for want of a backend, which the handler shows;
\* then the button is disabled and the worker thread is started
InstallSelected ==
    /\ window = "open"
    /\ CommandInvoked(button)
    /\ SelectedPlugins(boxes) # <<>>
    /\ Len(workers) < MaxClicks
    /\ \E service \in {"", "s"} :
          dialog' = IF service = "" THEN "Service requiring key"
                    ELSE IF SomeBackendUsable THEN "Saved key" ELSE "Encryption backend not available"
    /\ button' = StateAtStart(button)
    /\ progress' = [progress EXCEPT !.maximum = Len(SelectedPlugins(boxes))]
    /\ workers' = Append(workers, [pc |-> "running", todo |-> SelectedPlugins(boxes),
                                   installed |-> 0, error |-> None])
    /\ UNCHANGED <<window, boxes, afterQueue, delivered>>
    /\ GuiFrame

\* _run_install, lines 167-171: create_env and install_packages return for the
\* next plugin and the progress step is scheduled
WorkerInstallsPlugin(w) ==
    /\ workers[w].pc = "running"
    /\ workers[w].todo # <<>>
    /\ workers' = [workers EXCEPT ![w].todo = Tail(@), ![w].installed = @ + 1]
    /\ afterQueue' = after(afterQueue, [fn |-> "progress.step", run |-> w])
    /\ UNCHANGED <<window, boxes, button, progress, delivered, dialog>>
    /\ GuiFrame

\* _run_install, lines 174-176: create_env or install_packages raises for the
\* next plugin; the exception is passed to _install_complete
WorkerCatches(w) ==
    /\ workers[w].pc = "running"
    /\ workers[w].todo # <<>>
    /\ workers' = [workers EXCEPT ![w].pc = "ended", ![w].error = "exc"]
    /\ afterQueue' = after(afterQueue, [fn |-> "_install_complete", run |-> w,
                                        error |-> "exc"])
    /\ UNCHANGED <<window, boxes, button, progress, delivered, dialog>>
    /\ GuiFrame

\* _run_install, lines 172-173: the loop is over, None is passed to
\* _install_complete
WorkerSignalsSuccess(w) ==
    /\ workers[w].pc = "running"
    /\ workers[w].todo = <<>>
    /\ workers' = [workers EXCEPT ![w].pc = "ended"]
    /\ afterQueue' = after(afterQueue, [fn |-> "_install_complete", run |-> w,
                                        error |-> None])
    /\ UNCHANGED <<window, boxes, button, progress, delivered, dialog>>
    /\ GuiFrame

\* the interface thread runs the scheduled self.progress.step(1)
RunProgressStep ==
    /\ window = "open"
    /\ afterQueue # <<>>
    /\ Head(afterQueue).fn = "progress.step"
    /\ progress' = [progress EXCEPT !.value = (@ + 1) % progress.maximum]
    /\ delivered' = Append(delivered, Head(afterQueue))
    /\ afterQueue' = Tail(afterQueue)
    /\ UNCHANGED <<window, boxes, button, workers, dialog>>
    /\ GuiFrame

\* the interface thread runs _install_complete(error), lines 181-196: the
\* button is enabled; an error is shown; after a success the user may have
\* the Control Center launched, which destroys the window
RunInstallComplete ==
    /\ window = "open"
    /\ afterQueue # <<>>
    /\ Head(afterQueue).fn = "_install_complete"
    /\ button' = "normal"
    /\ IF Head(afterQueue).error # None
       THEN /\ dialog' = "Install failed"
            /\ UNCHANGED window
       ELSE \E answer \in {"no", "yes", "yes, import fails"} :
               /\ dialog' = IF answer = "yes, import fails" THEN "Failed to launch"
                            ELSE "Installation complete"
               /\ window' = IF answer = "yes" THEN "destroyed" ELSE window
    /\ delivered' = Append(delivered, Head(afterQueue))
    /\ afterQueue' = Tail(afterQueue)
    /\ UNCHANGED <<boxes, progress, workers>>
    /\ GuiFrame

WorkerStep ==
    \E w \in 1..Len(workers) :
        \/ WorkerInstallsPlugin(w)
        \/ WorkerCatches(w)
        \/ WorkerSignalsSuccess(w)

InterfaceCallback == RunProgressStep \/ RunInstallComplete

NextGui ==
    \/ ToggleBox
    \/ InstallNothingSelected
    \/ InstallSelected
    \/ WorkerStep
    \/ InterfaceCallback

SpecGui == InitGui /\ [][NextGui]_vars

\* a started thread runs on, and the main loop runs the callbacks scheduled
\* for it
SpecGuiLive == SpecGui /\ WF_vars(WorkerStep) /\ WF_vars(InterfaceCallback)

\* the positions in the sequence of the callbacks fn scheduled by worker w
Positions(callbacks, fn, w) ==
    {i \in 1..Len(callbacks) : callbacks[i].fn = fn /\ callbacks[i].run = w}

\* the completion callback of worker w has run on the interface thread
CompletionRun(w) == Positions(delivered, "_install_complete", w) # {}

\* what holds of the callbacks of worker w at every moment
CallbacksInOrder(w) ==
    LET done == Positions(delivered, "_install_complete", w)
        pending == Positions(afterQueue, "_install_complete", w)
        steps == Positions(delivered, "progress.step", w)
    IN  /\ Cardinality(done) + Cardinality(pending) <= 1
        /\ workers[w].pc = "ended" <=> Cardinality(done) + Cardinality(pending) = 1
        /\ \A i \in done :
              /\ delivered[i].error = workers[w].error
              /\ delivered[i].error = None <=> workers[w].todo = <<>>
              /\ \A j \in steps : j < i
              /\ Cardinality(steps) = workers[w].installed
              /\ Positions(afterQueue, "progress.step", w) = {}
              /\ w = Len(workers) => button = "normal"

C30_OneWorkerAtATime ==
    /\ Cardinality({w \in 1..Len(workers) : workers[w].pc = "running"}) <= 1
    /\ \A w \in 1..Len(workers) : ~CompletionRun(w) => button = "disabled"

\* a second worker runs, started after the completion of the first had run
C30_Witness ==
    /\ Len(workers) = 2
    /\ CompletionRun(1)
    /\ workers[2].pc = "running"
    /\ button = "disabled"

(***************************************************************************)
(* Further properties of the environment provisioner                       *)
(***************************************************************************)

\* C26: create_env returns a location for a name only if an environment
\* creation for that name has completed successfully, in this call or an
\* earlier one; a location left behind by a failed creation is not taken for
\* an environment by a later call.
C26_ReturnsOnlyCreatedEnvironments ==
    lastCall.status = "returned" => envDirs[lastCall.name] = "complete"

\* a step keeps every entry of a readable record and every environment
RecordAndEnvironmentsKept ==
    /\ ReadableMapping(record)
          => /\ ReadableMapping(record')
             /\ \A n \in DOMAIN record.doc.items :
                   /\ n \in DOMAIN record'.doc.items
                   /\ record'.doc.items[n] = record.doc.items[n]
    /\ \A n \in EnvNames : envDirs[n] # "absent" => envDirs'[n] = envDirs[n]

\* C29: in a sequential run of create_env calls the record only grows while it
\* is a readable mapping: a call that returns leaves its name mapped to its
\* location, later calls keep the entry, and no step removes an entry or an
\* environment.
C29_RecordOnlyGrows ==
    /\ [](lastCall.status = "returned" => Recorded(lastCall.name))
    /\ [][RecordAndEnvironmentsKept]_vars

\* the call for one name returned, then the call for the other, and the record
\* maps both names to their locations
C29_Witness ==
    /\ prevCall.status = "returned" /\ lastCall.status = "returned"
    /\ prevCall.name # lastCall.name
    /\ prevCall.created /\ lastCall.created
    /\ Recorded(prevCall.name) /\ Recorded(lastCall.name)

\* the registry key under which the declarations of a unit are stored: the
\* name of the entry point, the stem of the script, "global" for declarations
\* made with no plugin active
KeyOfUnit(unit) ==
    IF unit = HostUnit THEN GLOBAL
    ELSE IF unit[1] = "eps" THEN eps[unit[2]].name ELSE files[unit[2]].name

\* C27: distinct discovered units are attributed to distinct registry keys:
\* the dependencies declared by two different units (an entry point and a
\* directory script, two entry points, a unit and the context-free
\* declarations under "global") are never merged under one key.
C27_DistinctUnitsDistinctKeys ==
    \A k \in DOMAIN deps :
        Cardinality({unit \in DOMAIN declared : KeyOfUnit(unit) = k}) <= 1

(***************************************************************************)
(* Further properties of the resolver                                      *)
(***************************************************************************)

\* C28: for every input and either value of auto_resolve, the resolved list
\* holds at most one entry per normalized package name, a package is a key of
\* conflicts only if its group declares more than one distinct pinned version,
\* and the entry of a package with a conflict pins a version that one of the
\* requirements declared for that package pinned.
C28_ResolverInvariants ==
    rpc = "called" =>
        /\ DOMAIN rres.conflicts \subseteq NamesIn(rq)
        /\ \A i \in 1..Len(rres.resolved) : NameOf(rres.resolved[i]) \in NamesIn(rq)
        /\ \A n \in NamesIn(rq) :
              LET entries == EntriesFor(rres.resolved, n)
              IN /\ Cardinality(entries) <= 1
                 /\ n \in DOMAIN rres.conflicts => Cardinality(PinTokens(rq, n)) > 1
                 /\ n \in DOMAIN rres.conflicts =>
                       \A i \in entries :
                          \E V \in PinTokens(rq, n) :
                             rres.resolved[i] = n \o <<61, 61>> \o VersionText(V)

\* ["Pkg===10", "pkg==9", "lib==2"] with auto_resolve: one entry per package,
\* pkg in conflict and resolved to the pin 10 that "Pkg===10" declared
C28_Witness ==
    /\ rpc = "called" /\ auto
    /\ rq = <<Text(PkgCapital, <<Sp("===", <<10>>)>>), Text(PKG, <<Sp("==", <<9>>)>>),
              Text(LIB, <<Sp("==", <<2>>)>>)>>
    /\ DOMAIN rres.conflicts = {PKG}
    /\ rres.resolved = <<Text(PKG, <<Sp("==", <<10>>)>>), Text(LIB, <<Sp("==", <<2>>)>>)>>

====
